---- MODULE Spec2Model ----
(***************************************************************************)
(* Model of the multi-tenant payment relay: tenant configuration           *)
(* resolution (src/app-config), the signature check and the verification   *)
(* handler of the multi-app server, and the order-update adapter           *)
(* (src/order-update).                                                     *)
(*                                                                         *)
(* JavaScript values are modelled as follows.  A string is a TLA+ string;  *)
(* the empty string "" stands for every falsy request value (undefined,    *)
(* null, '').  An object is a function whose domain is its set of own      *)
(* enumerable keys; {...a, ...b} is  b @@ a.                               *)
(***************************************************************************)
EXTENDS Integers, Sequences, FiniteSets, TLC

VARIABLES
    appConfigs,  \* app-config/index.js: the loaded tenant mapping
    pin,         \* input of the pure function under examination
    pout,        \* its result
    env,         \* process environment: gateway key, Firebase handles and their health
    fs,          \* Firestore documents: <<collection, id>> -> fields
    db,          \* Realtime Database nodes: <<node, id>> -> fields
    payments,    \* Realtime Database node `payments`: the pushed records, in order
    nreq,        \* number of verify requests received so far
    req,         \* the verify request being handled (or the last one handled)
    pc,          \* position of its handler
    resp,        \* its response
    tasks,       \* promises started without await and not yet settled
    outbox,      \* requests made to the notification provider, in order
    log,         \* record-store and provider operations made for the current request
    gateway,     \* calls of razorpay.orders.create, in order, with their outcome
    oreq,        \* the create-order request being handled (or the last one handled)
    oresp,       \* its response
    wreq,        \* the webhook request being handled (or the last one handled)
    wresp        \* its response

pureVars == <<pin, pout>>
orderVars == <<gateway, oreq, oresp>>
hookVars == <<wreq, wresp>>
serverVars == <<env, fs, db, payments, nreq, req, pc, resp, tasks, outbox, log,
                orderVars, hookVars>>

-----------------------------------------------------------------------------
(* JavaScript helpers *)

\* the JavaScript null returned by getAppIdFromRequest
Null == "<null>"

\* truthiness of a request string: undefined, null and '' are falsy
Truthy(v) == v # "" /\ v # Null

\* {} : an object with no own enumerable key
EmptyObj == <<>>

\* {...a, ...b}
Spread(a, b) == b @@ a

\* obj?.k where the result is only spread or read again: undefined has no keys
Field(obj, k) == IF k \in DOMAIN obj THEN obj[k] ELSE EmptyObj

-----------------------------------------------------------------------------
(* Tenant configuration: config/apps.js and src/app-config/index.js *)

CollectionsDefault ==
    [orders |-> "orders", consultations |-> "consultations",
     payments |-> "payments", users |-> "users"]

\* config/apps.js, entry `default`
DefaultConfig ==
    [name |-> "MediFind",
     notifications |-> [enabled |-> TRUE, provider |-> "onesignal",
                        onesignal |-> [appId |-> "os_medifind", restApiKey |-> "os_key"]],
     firebase |-> [usePaymentServiceFirebase |-> FALSE, projectId |-> "medifind-doctor"],
     orderUpdate |-> [enabled |-> TRUE, useFirebase |-> TRUE,
                      collections |-> CollectionsDefault],
     testMode |-> [autoDetect |-> TRUE, bookOnPaymentFailure |-> TRUE]]

\* config/apps.js, entry `medifind` (same content as default)
MedifindConfig == DefaultConfig

\* Partial tenant entries of the kind README_MULTI_APP.md describes: a tenant
\* names only the keys it overrides.
StrictConfig ==
    [name |-> "Strict",
     testMode |-> [autoDetect |-> FALSE, bookOnPaymentFailure |-> FALSE]]

NoBookConfig ==
    [name |-> "NoBook",
     testMode |-> [bookOnPaymentFailure |-> FALSE]]

ManualConfig ==
    [name |-> "Manual",
     testMode |-> [autoDetect |-> FALSE]]

CustomConfig ==
    [name |-> "Custom",
     notifications |-> [provider |-> "custom"]]

\* A mapping is the sequence of its entries in insertion order
\* (Object.values iterates in that order).
Entry(id, cfg) == [id |-> id, cfg |-> cfg]

RepoMapping == <<Entry("default", DefaultConfig), Entry("medifind", MedifindConfig)>>

MultiMapping ==
    <<Entry("default", DefaultConfig), Entry("medifind", MedifindConfig),
      Entry("strict", StrictConfig), Entry("nobook", NoBookConfig),
      Entry("manual", ManualConfig), Entry("custom", CustomConfig)>>

LoadableMappings == {RepoMapping, MultiMapping}

\* names every object inherits from Object.prototype; configs[k] finds them
ObjectPrototypeKeys == {"constructor", "toString"}

\* what such an inherited member looks like to spread and to property reads:
\* truthy, with no own enumerable key
ProtoMember == EmptyObj

OwnKeys(m) == {m[i].id : i \in DOMAIN m}
Own(m, k) == m[CHOOSE i \in DOMAIN m : m[i].id = k].cfg

\* configs[k] is truthy
HasProp(m, k) == k \in OwnKeys(m) \/ k \in ObjectPrototypeKeys
\* configs[k], for a k with HasProp
Prop(m, k) == IF k \in OwnKeys(m) THEN Own(m, k) ELSE ProtoMember

loadAppConfigs == appConfigs

\* configs.default || configs.medifind || Object.values(configs)[0]
FallbackNoId(m) ==
    IF "default" \in OwnKeys(m) THEN Own(m, "default")
    ELSE IF "medifind" \in OwnKeys(m) THEN Own(m, "medifind")
    ELSE m[1].cfg

\* configs[appId] || configs.default || Object.values(configs)[0]
getAppConfig(appId) ==
    LET configs == loadAppConfigs IN
    IF ~Truthy(appId) THEN FallbackNoId(configs)
    ELSE IF HasProp(configs, appId) THEN Prop(configs, appId)
    ELSE IF "default" \in OwnKeys(configs) THEN Own(configs, "default")
    ELSE configs[1].cfg

\* a faulty merge that overlays the top-level keys only, so that a tenant's
\* partial nested object replaces the default's
mergeTopLevelOnly(appConfig) ==
    LET configs == loadAppConfigs
        defaultConfig == IF "default" \in OwnKeys(configs)
                         THEN Own(configs, "default") ELSE EmptyObj
    IN  Spread(defaultConfig, appConfig)

mergeWithDefault(appConfig) ==
    LET configs == loadAppConfigs
        defaultConfig == IF "default" \in OwnKeys(configs)
                         THEN Own(configs, "default") ELSE EmptyObj
        dn == Field(defaultConfig, "notifications")
        an == Field(appConfig, "notifications")
        do == Field(defaultConfig, "orderUpdate")
        ao == Field(appConfig, "orderUpdate")
        notifications ==
            [onesignal |-> Spread(Field(dn, "onesignal"), Field(an, "onesignal"))]
            @@ Spread(dn, an)
        orderUpdate ==
            [collections |-> Spread(Field(do, "collections"), Field(ao, "collections"))]
            @@ Spread(do, ao)
        testMode == Spread(Field(defaultConfig, "testMode"), Field(appConfig, "testMode"))
    IN  [notifications |-> notifications, orderUpdate |-> orderUpdate,
         testMode |-> testMode]
        @@ Spread(defaultConfig, appConfig)

\* a faulty resolver that asks the query parameter before the header
getAppIdQueryFirst(request) ==
    IF Truthy(request.query) THEN request.query
    ELSE IF Truthy(request.headers) THEN request.headers
    ELSE IF Truthy(request.notes) THEN request.notes
    ELSE IF Truthy(request.body) THEN request.body
    ELSE Null

\* the tenant id sources of a request: headers['x-app-id'], query.appId,
\* body.notes.appId, body.appId
getAppIdFromRequest(request) ==
    IF Truthy(request.headers) THEN request.headers
    ELSE IF Truthy(request.query) THEN request.query
    ELSE IF Truthy(request.notes) THEN request.notes
    ELSE IF Truthy(request.body) THEN request.body
    ELSE Null

\* the middleware that attaches the tenant config to the request
AttachAppConfig(request) ==
    LET appId == getAppIdFromRequest(request) IN
    [appConfig |-> mergeWithDefault(getAppConfig(appId)),
     appId |-> IF Truthy(appId) THEN appId ELSE "default"]

-----------------------------------------------------------------------------
(* Signature check *)

\* An identifier or a digest is a sequence of characters; <<>> is the empty
\* (falsy) string.  "pay_test_" and "|" are single characters of the model.
Text(orderId, paymentId) == orderId \o <<"|">> \o paymentId

\* crypto.createHmac('sha256', secret).update(text).digest('hex'): an
\* injective function of the secret and the text
Hmac(secret, text) == [key |-> secret, msg |-> text]

\* a faulty check that compares the signed text and forgets the secret
isSignatureValidAnySecret(secret, orderId, paymentId, signature) ==
    signature.msg = Text(orderId, paymentId)

\* generatedSignature === razorpay_signature
isSignatureValid(secret, orderId, paymentId, signature) ==
    Hmac(secret, Text(orderId, paymentId)) = signature

StartsWith(s, c) == Len(s) >= 1 /\ s[1] = c

\* razorpay_payment_id.startsWith('pay_test_') ||
\* process.env.RAZORPAY_KEY_ID.startsWith('rzp_test_') || isTestMode
isTestPayment(paymentId, keyId, isTestMode) ==
    StartsWith(paymentId, "pay_test_") \/ StartsWith(keyId, "rzp_test_") \/ isTestMode

-----------------------------------------------------------------------------
(* Record store: src/order-update/index.js and the helpers of the server *)

\* admin.firestore.FieldValue.serverTimestamp() / ServerValue.TIMESTAMP
ServerTimestamp == "server_ts"

\* log entries: an operation on a store, the document it names and, for a
\* write, the fields written
Op(op, store, path, data) == [op |-> op, store |-> store, path |-> path, data |-> data]
Ev(op, store, path) == Op(op, store, path, EmptyObj)

\* An UPDATE of one document: existing fields keep their value unless named
\* a faulty write that replaces the document (set without merge)
SetDoc(store, path, data) == (path :> data) @@ store

UpdateDoc(store, path, data) ==
    (path :> Spread(IF path \in DOMAIN store THEN store[path] ELSE EmptyObj, data)) @@ store

\* updateData of updateOrderPaymentStatus
UpdateData(paymentStatus, paymentId) ==
    Spread(Spread([paymentStatus |-> paymentStatus, updatedAt |-> ServerTimestamp],
                  IF paymentId # <<>> THEN [paymentId |-> paymentId] ELSE EmptyObj),
           IF paymentStatus = "paid" THEN [paidAt |-> ServerTimestamp] ELSE EmptyObj)

Flag(obj, k) == k \in DOMAIN obj /\ obj[k] = TRUE
Str(obj, k, dflt) == IF k \in DOMAIN obj /\ obj[k] # "" THEN obj[k] ELSE dflt

\* a faulty backend part that looks in the orders collection first
UpdateInOrdersFirst(name, store, cc, oc, orderId, data) ==
    IF <<oc, orderId>> \in DOMAIN store
    THEN [found |-> TRUE, store |-> UpdateDoc(store, <<oc, orderId>>, data),
          events |-> <<Ev("read", name, <<oc, orderId>>), Op("write", name, <<oc, orderId>>, data)>>]
    ELSE IF <<cc, orderId>> \in DOMAIN store
    THEN [found |-> TRUE, store |-> UpdateDoc(store, <<cc, orderId>>, data),
          events |-> <<Ev("read", name, <<oc, orderId>>), Ev("read", name, <<cc, orderId>>),
                       Op("write", name, <<cc, orderId>>, data)>>]
    ELSE [found |-> FALSE, store |-> store,
          events |-> <<Ev("read", name, <<oc, orderId>>), Ev("read", name, <<cc, orderId>>)>>]

\* a faulty backend part that writes the consultations document whether or
\* not it exists (set with merge)
UpsertIn(name, store, cc, oc, orderId, data) ==
    [found |-> TRUE, store |-> UpdateDoc(store, <<cc, orderId>>, data),
     events |-> <<Op("write", name, <<cc, orderId>>, data)>>]

\* One backend's part of updateOrderPaymentStatus: the consultations
\* collection first, then the orders collection; found says whether a
\* document was updated (the function then returns).
UpdateIn(name, store, cc, oc, orderId, data) ==
    IF <<cc, orderId>> \in DOMAIN store
    THEN [found |-> TRUE, store |-> UpdateDoc(store, <<cc, orderId>>, data),
          events |-> <<Ev("read", name, <<cc, orderId>>), Op("write", name, <<cc, orderId>>, data)>>]
    ELSE IF <<oc, orderId>> \in DOMAIN store
    THEN [found |-> TRUE, store |-> UpdateDoc(store, <<oc, orderId>>, data),
          events |-> <<Ev("read", name, <<cc, orderId>>), Ev("read", name, <<oc, orderId>>),
                       Op("write", name, <<oc, orderId>>, data)>>]
    ELSE [found |-> FALSE, store |-> store,
          events |-> <<Ev("read", name, <<cc, orderId>>), Ev("read", name, <<oc, orderId>>)>>]

\* The try block of updateOrderPaymentStatus(appConfig, orderId,
\* paymentStatus, paymentId): the stores and the operations it leaves behind.
updateOrderPaymentStatusTry(appConfig, orderId, paymentStatus, paymentId) ==
    LET ou == Field(appConfig, "orderUpdate")
        data == UpdateData(paymentStatus, paymentId)
        collections == Field(ou, "collections")
        cc == Str(collections, "consultations", "consultations")
        oc == Str(collections, "orders", "orders")
        same == [fs |-> fs, db |-> db, events |-> <<>>]
        inFs == UpdateIn("firestore", fs, cc, oc, orderId, data)
        inDb == UpdateIn("rtdb", db, cc, oc, orderId, data)
    IN  IF ~Flag(ou, "enabled") THEN same
        ELSE IF Str(ou, "endpoint", "") # "" /\ ~Flag(ou, "useFirebase")
        THEN [same EXCEPT !.events = <<Op("patch", "endpoint", <<"", orderId>>, data)>>]
        ELSE IF ~Flag(ou, "useFirebase") THEN same
        ELSE IF env.fsUp /\ inFs.found
        THEN [fs |-> inFs.store, db |-> db, events |-> inFs.events]
        ELSE LET before == IF env.fsUp THEN inFs.events ELSE <<>> IN
             IF env.dbUp
             THEN [fs |-> fs, db |-> inDb.store, events |-> before \o inDb.events]
             ELSE [fs |-> fs, db |-> db, events |-> before]

\* a faulty adapter without its catch clauses: the failure of a backend
\* reaches the caller
updateOrderPaymentStatusUncaught(appConfig, orderId, paymentStatus, paymentId) ==
    [threw |-> ~env.fsUp \/ ~env.dbUp]
    @@ updateOrderPaymentStatusTry(appConfig, orderId, paymentStatus, paymentId)

\* updateOrderPaymentStatus: every error of the try block is caught and
\* logged (catch clauses at the backends and around the whole body), so the
\* caller never sees an exception
updateOrderPaymentStatus(appConfig, orderId, paymentStatus, paymentId) ==
    [threw |-> FALSE]
    @@ updateOrderPaymentStatusTry(appConfig, orderId, paymentStatus, paymentId)

\* One backend's part of getOrderDetails
ReadIn(name, store, cc, oc, orderId) ==
    IF <<cc, orderId>> \in DOMAIN store
    THEN [found |-> TRUE, doc |-> store[<<cc, orderId>>],
          events |-> <<Ev("read", name, <<cc, orderId>>)>>]
    ELSE IF <<oc, orderId>> \in DOMAIN store
    THEN [found |-> TRUE, doc |-> store[<<oc, orderId>>],
          events |-> <<Ev("read", name, <<cc, orderId>>), Ev("read", name, <<oc, orderId>>)>>]
    ELSE [found |-> FALSE, doc |-> EmptyObj,
          events |-> <<Ev("read", name, <<cc, orderId>>), Ev("read", name, <<oc, orderId>>)>>]

\* a faulty reader that never falls back to the Realtime Database
getOrderDetailsFirestoreOnly(appConfig, orderId) ==
    LET ou == Field(appConfig, "orderUpdate")
        collections == Field(ou, "collections")
        cc == Str(collections, "consultations", "consultations")
        oc == Str(collections, "orders", "orders")
        inFs == ReadIn("firestore", fs, cc, oc, orderId)
    IN  IF Flag(ou, "enabled") /\ Flag(ou, "useFirebase") /\ env.fsUp /\ inFs.found
        THEN inFs
        ELSE [found |-> FALSE, doc |-> EmptyObj, events |-> <<>>]

\* getOrderDetails(appConfig, orderId): found is FALSE for a null result
getOrderDetails(appConfig, orderId) ==
    LET ou == Field(appConfig, "orderUpdate")
        collections == Field(ou, "collections")
        cc == Str(collections, "consultations", "consultations")
        oc == Str(collections, "orders", "orders")
        none == [found |-> FALSE, doc |-> EmptyObj, events |-> <<>>]
        inFs == ReadIn("firestore", fs, cc, oc, orderId)
        inDb == ReadIn("rtdb", db, cc, oc, orderId)
    IN  IF ~Flag(ou, "enabled") THEN none
        ELSE IF ~Flag(ou, "useFirebase")
        THEN IF Str(ou, "endpoint", "") # ""
             THEN [none EXCEPT !.events = <<Ev("get", "endpoint", <<"", orderId>>)>>]
             ELSE none
        ELSE IF env.fsUp /\ inFs.found THEN inFs
        ELSE LET before == IF env.fsUp THEN inFs.events ELSE <<>> IN
             IF env.dbUp
             THEN [inDb EXCEPT !.events = before \o inDb.events]
             ELSE [none EXCEPT !.events = before]

\* a faulty record that is stored as not yet verified
UnverifiedRecord(paymentData) ==
    [razorpayPaymentId |-> paymentData.razorpay_payment_id,
     razorpayOrderId |-> paymentData.razorpay_order_id,
     razorpaySignature |-> paymentData.razorpay_signature,
     amount |-> paymentData.amount,
     status |-> "created",
     verified |-> FALSE,
     consultationId |-> paymentData.consultationId,
     createdAt |-> ServerTimestamp]

\* paymentRecord of savePaymentToDatabase
PaymentRecord(paymentData) ==
    [razorpayPaymentId |-> paymentData.razorpay_payment_id,
     razorpayOrderId |-> paymentData.razorpay_order_id,
     razorpaySignature |-> paymentData.razorpay_signature,
     amount |-> paymentData.amount,
     status |-> "completed",
     verified |-> TRUE,
     consultationId |-> paymentData.consultationId,
     createdAt |-> ServerTimestamp]

-----------------------------------------------------------------------------
(* POST /api/payment/verify of the multi-app server *)

MaxRequests == 1

GatewaySecret == "key_secret"

OrderId == <<"order_", "1">>
LivePaymentId == <<"pay_", "1">>
TestPaymentId == <<"pay_test_", "1">>

\* the linked record the store holds, and an id the store does not hold
KnownConsultation == "c1"
UnknownConsultation == "c9"

LinkedRecord ==
    [paymentStatus |-> "pending", updatedAt |-> "t0",
     patientId |-> "patient1", doctorId |-> "doctor1", doctorName |-> "Dr. A"]

\* a signature made under the gateway secret, and one made under another
GoodSignature(orderId, paymentId) == Hmac(GatewaySecret, Text(orderId, paymentId))
BadSignature(orderId, paymentId) == Hmac("other_secret", Text(orderId, paymentId))

\* Bodies a client can send; <<>>, "" and 0 are the absent field.
\* With the three payment details present: either payment id, a signature
\* that matches or not, any consultationId, tenant and isTestMode.
CompleteBodies ==
    {[razorpay_order_id |-> OrderId, razorpay_payment_id |-> p,
      razorpay_signature |-> IF good THEN GoodSignature(OrderId, p)
                             ELSE BadSignature(OrderId, p),
      consultationId |-> c, amount |-> 50000, isTestMode |-> t, headers |-> h] :
        p \in {LivePaymentId, TestPaymentId}, good \in BOOLEAN,
        c \in {"", KnownConsultation, UnknownConsultation},
        t \in BOOLEAN, h \in {"", "strict", "nobook", "manual"}}

\* The same without the optional amount
NoAmountBodies ==
    {[b EXCEPT !.amount = 0] :
        b \in {c \in CompleteBodies :
                 /\ c.razorpay_payment_id = LivePaymentId /\ c.headers = ""
                 /\ ~c.isTestMode /\ c.consultationId # UnknownConsultation}}

\* With one payment detail absent (the signature, when present, may match)
IncompleteBodies ==
    {[b EXCEPT ![k] = <<>>] :
        b \in {c \in CompleteBodies : c.headers \in {"", "strict"}
                                      /\ c.consultationId # UnknownConsultation},
        k \in {"razorpay_order_id", "razorpay_payment_id", "razorpay_signature"}}

VerifyBodies == CompleteBodies \cup NoAmountBodies \cup IncompleteBodies

\* the response bodies of the handler
MissingResponse == [status |-> 400, success |-> FALSE, error |-> "missing_details",
                    consultation_booked |-> FALSE]
SuccessResponse == [status |-> 200, success |-> TRUE, error |-> "",
                    consultation_booked |-> FALSE]
SoftFailResponse == [status |-> 200, success |-> FALSE, error |-> "invalid_signature_test_mode",
                     consultation_booked |-> TRUE]
HardFailResponse == [status |-> 400, success |-> FALSE, error |-> "invalid_signature",
                     consultation_booked |-> FALSE]
\* catch (error) of a handler: res.status(500)
ServerErrorResponse == [status |-> 500, success |-> FALSE, error |-> "server_error",
                        consultation_booked |-> FALSE]
NoResponse == [status |-> 0, success |-> FALSE, error |-> "", consultation_booked |-> FALSE]

\* a faulty gate that books whatever the tenant configured
alwaysBookOnFailure(appConfig) == TRUE

\* appConfig.testMode?.bookOnPaymentFailure !== false
shouldBookOnFailure(appConfig) ==
    LET tm == Field(appConfig, "testMode") IN
    ~("bookOnPaymentFailure" \in DOMAIN tm /\ tm.bookOnPaymentFailure = FALSE)

\* a faulty gate that does not ask for a consultationId
TakesSoftFailWithoutId(appConfig, testPayment, consultationId) ==
    /\ testPayment \/ Flag(Field(appConfig, "testMode"), "autoDetect")
    /\ shouldBookOnFailure(appConfig)

\* (isTestPayment || appConfig.testMode?.autoDetect) && consultationId && shouldBookOnFailure
TakesSoftFail(appConfig, testPayment, consultationId) ==
    /\ testPayment \/ Flag(Field(appConfig, "testMode"), "autoDetect")
    /\ consultationId # ""
    /\ shouldBookOnFailure(appConfig)

\* a faulty guard that forgets to ask for the signature
MissingIdsOnly(body) ==
    \/ body.razorpay_order_id = <<>>
    \/ body.razorpay_payment_id = <<>>

\* !razorpay_order_id || !razorpay_payment_id || !razorpay_signature
MissingDetails(body) ==
    \/ body.razorpay_order_id = <<>>
    \/ body.razorpay_payment_id = <<>>
    \/ body.razorpay_signature = <<>>

\* a faulty handler that does not wait for the signature comparison
DecideWithoutSignature(valid, appConfig, testPayment, consultationId) == "Success"

\* a faulty handler that consults the test-mode gate before the signature
DecideTestModeFirst(valid, appConfig, testPayment, consultationId) ==
    IF TakesSoftFail(appConfig, testPayment, consultationId) THEN "TestModeSoftFail"
    ELSE IF valid THEN "Success"
    ELSE "HardFail"

\* the branch the handler takes once the details are present
Decide(valid, appConfig, testPayment, consultationId) ==
    IF valid THEN "Success"
    ELSE IF TakesSoftFail(appConfig, testPayment, consultationId) THEN "TestModeSoftFail"
    ELSE "HardFail"

\* a faulty soft-fail status
FailedStatus == "failed"

\* the paymentStatus handed to updateOrderPaymentStatus in either branch
SuccessStatus == "paid"
SoftFailStatus == "pending"

\* savePaymentToDatabase up to its first await: nothing when Firebase is not
\* configured, else the write of the record is under way
StartSavePayment(rid, body) ==
    IF ~env.database THEN {}
    ELSE {[kind |-> "savePayment", rid |-> rid,
           data |-> [razorpay_payment_id |-> body.razorpay_payment_id,
                     razorpay_order_id |-> body.razorpay_order_id,
                     razorpay_signature |-> body.razorpay_signature,
                     amount |-> body.amount,
                     consultationId |-> body.consultationId]]}

\* sendPaymentNotifications(...) called without await
StartNotify(rid, appConfig, consultationId, paymentStatus, amount, paymentId) ==
    {[kind |-> "notify", rid |-> rid, appConfig |-> appConfig,
      consultationId |-> consultationId, paymentStatus |-> paymentStatus,
      amount |-> amount, paymentId |-> paymentId]}

\* The handler from the arrival of the request to its first await (or to its
\* response when it awaits nothing).
VerifyArrives(body, limit) ==
    /\ pc = "idle"
    /\ nreq < limit
    /\ nreq' = nreq + 1
    /\ LET attached == AttachAppConfig([headers |-> body.headers, query |-> "",
                                        notes |-> "", body |-> ""])
           appConfig == attached.appConfig
           valid == isSignatureValid(env.keySecret, body.razorpay_order_id,
                                     body.razorpay_payment_id, body.razorpay_signature)
           testPayment == isTestPayment(body.razorpay_payment_id, env.keyId, body.isTestMode)
           base == [body |-> body, appConfig |-> appConfig, appId |-> attached.appId,
                    valid |-> valid, outcome |-> "", update |-> EmptyObj]
           outcome == Decide(valid, appConfig, testPayment, body.consultationId)
       IN
       IF MissingDetails(body)
       THEN /\ req' = [base EXCEPT !.valid = FALSE, !.outcome = "InvalidRequest"]
            /\ resp' = MissingResponse
            /\ pc' = "idle"
            /\ tasks' = tasks
       ELSE IF outcome = "Success"
       THEN /\ tasks' = tasks \cup StartSavePayment(nreq + 1, body)
            /\ IF body.consultationId # ""
               THEN /\ req' = [base EXCEPT !.outcome = outcome,
                                 !.update = [paymentStatus |-> SuccessStatus,
                                             paymentId |-> body.razorpay_payment_id]]
                    /\ resp' = NoResponse
                    /\ pc' = "awaitUpdate"
               ELSE /\ req' = [base EXCEPT !.outcome = outcome]
                    /\ resp' = SuccessResponse
                    /\ pc' = "idle"
       ELSE IF outcome = "TestModeSoftFail"
       THEN /\ req' = [base EXCEPT !.outcome = outcome,
                         !.update = [paymentStatus |-> SoftFailStatus, paymentId |-> <<>>]]
            /\ resp' = NoResponse
            /\ pc' = "awaitUpdate"
            /\ tasks' = tasks
       ELSE /\ req' = [base EXCEPT !.outcome = outcome]
            /\ resp' = HardFailResponse
            /\ pc' = "idle"
            /\ tasks' = tasks
    /\ log' = <<>>
    /\ UNCHANGED <<appConfigs, pin, pout, env, fs, db, payments, outbox>>
    /\ UNCHANGED <<orderVars, hookVars>>

VerifyReceive(body) == VerifyArrives(body, MaxRequests)

\* await updateOrderPaymentStatus(appConfig, consultationId, status, paymentId)
AwaitUpdate ==
    /\ pc = "awaitUpdate"
    /\ LET r == updateOrderPaymentStatus(req.appConfig, req.body.consultationId,
                                         req.update.paymentStatus, req.update.paymentId)
       IN  /\ fs' = r.fs
           /\ db' = r.db
           /\ log' = log \o r.events
           /\ IF r.threw
              THEN pc' = "idle" /\ resp' = ServerErrorResponse
              ELSE pc' = "updated" /\ resp' = resp
    /\ UNCHANGED <<appConfigs, pin, pout, env, payments, nreq, req, tasks, outbox>>
    /\ UNCHANGED <<orderVars, hookVars>>

\* after the await: the notification is started and the response is sent
VerifyRespond ==
    /\ pc = "updated"
    /\ tasks' = tasks \cup
          StartNotify(nreq, req.appConfig, req.body.consultationId,
                      IF req.outcome = "Success" THEN "paid" ELSE "failed",
                      req.body.amount, req.body.razorpay_payment_id)
    /\ resp' = IF req.outcome = "Success" THEN SuccessResponse ELSE SoftFailResponse
    /\ pc' = "idle"
    /\ UNCHANGED <<appConfigs, pin, pout, env, fs, db, payments, nreq, req, outbox, log>>
    /\ UNCHANGED <<orderVars, hookVars>>

\* The rest of savePaymentToDatabase: the record is pushed under `payments`
\* and, with a consultationId, the node consultations/<id> is updated (an
\* UPDATE of a Realtime Database node that does not exist creates it).  A
\* failing write throws into the catch and nothing further is done.
\* a faulty insert that keeps one record per payment id
PushUnlessPresent(node, record) ==
    IF \E i \in DOMAIN node : node[i].razorpayPaymentId = record.razorpayPaymentId
    THEN node
    ELSE Append(node, record)

\* database.ref(node).push().set(record): the record under a fresh key
Push(node, record) == Append(node, record)

SettleSavePayment(t) ==
    /\ t \in tasks /\ t.kind = "savePayment"
    /\ tasks' = tasks \ {t}
    /\ LET cid == t.data.consultationId
           path == <<"consultations", cid>>
           data == [paymentStatus |-> "paid",
                    paymentId |-> t.data.razorpay_payment_id,
                    paidAt |-> ServerTimestamp, updatedAt |-> ServerTimestamp]
           events == <<Op("insert", "rtdb", <<"payments", "">>, PaymentRecord(t.data))>> \o
                     (IF cid # "" THEN <<Op("write", "rtdb", path, data)>> ELSE <<>>)
       IN
       IF env.dbUp
       THEN /\ payments' = Push(payments, PaymentRecord(t.data))
            /\ db' = IF cid # "" THEN UpdateDoc(db, path, data) ELSE db
            /\ log' = IF t.rid = nreq THEN log \o events ELSE log
       ELSE UNCHANGED <<payments, db, log>>
    /\ UNCHANGED <<appConfigs, pin, pout, env, fs, nreq, req, pc, resp, outbox>>
    /\ UNCHANGED <<orderVars, hookVars>>

RECURSIVE SetToSeq(_)
SetToSeq(S) == IF S = {} THEN <<>>
               ELSE LET x == CHOOSE y \in S : TRUE IN <<x>> \o SetToSeq(S \ {x})

\* ids of the documents of a users collection whose role is 'admin'
AdminIds(store, usersCollection) ==
    SetToSeq({p[2] : p \in {q \in DOMAIN store :
                 q[1] = usersCollection /\ Flag([admin |-> Field(store[q], "role") = "admin"], "admin")}})

FirstOf(doc, keys) ==
    IF \E i \in DOMAIN keys : Str(doc, keys[i], "") # ""
    THEN <<doc[keys[CHOOSE i \in DOMAIN keys :
                  /\ Str(doc, keys[i], "") # ""
                  /\ \A j \in 1..(i-1) : Str(doc, keys[j], "") = ""]]>>
    ELSE <<>>

\* userIds of sendPaymentNotification, in the order they are pushed
Recipients(config, consultationData) ==
    LET usersCollection == Str(Field(Field(config, "orderUpdate"), "collections"), "users", "users")
        admins == IF env.fsUp THEN AdminIds(fs, usersCollection)
                  ELSE IF env.dbUp THEN AdminIds(db, usersCollection)
                  ELSE <<>>
    IN  FirstOf(consultationData, <<"patientId", "userId">>)
        \o FirstOf(consultationData, <<"doctorId", "providerId", "sellerId">>)
        \o admins

\* the request body handed to the provider
NotificationMessage(config, consultationId, paymentStatus, amount, paymentId, userIds) ==
    LET nc == Field(config, "notifications")
        provider == Str(nc, "provider", "onesignal")
        isSuccess == paymentStatus \in {"paid", "completed"}
    IN  [provider |-> provider, userIds |-> userIds,
         type |-> IF isSuccess THEN "payment_success" ELSE "payment_failed",
         consultationId |-> consultationId, paymentId |-> paymentId,
         amount |-> amount,
         ok |-> env.providerUp,
         stillBooked |-> /\ provider = "onesignal" /\ ~isSuccess
                         /\ Flag(Field(config, "testMode"), "bookOnPaymentFailure")]

\* a faulty switch that sends again when the provider answers non-2xx
ProviderRequestsRetrying(nc, message) ==
    IF message.provider \in {"onesignal", "custom"}
    THEN IF message.ok THEN <<message>> ELSE <<message, message>>
    ELSE <<>>

\* switch (provider): the HTTP requests made, none or one.
\* sendOneSignalNotification returns without a request for an empty list
\* or a missing REST API key; sendCustomNotification posts what it is given.
ProviderRequests(nc, message) ==
    LET restApiKey == Str(Field(nc, "onesignal"), "restApiKey", env.onesignalKey)
    IN  IF message.provider = "onesignal"
        THEN IF message.userIds = <<>> \/ restApiKey = "" THEN <<>> ELSE <<message>>
        ELSE IF message.provider = "custom"
        THEN IF Str(nc, "customEndpoint", "") # "" THEN <<message>> ELSE <<>>
        ELSE <<>>

\* a faulty sender without the check for an empty recipient list
sendPaymentNotificationUnchecked(config, consultationId, paymentStatus, amount, paymentId, consultationData) ==
    LET nc == Field(config, "notifications")
        userIds == Recipients(config, consultationData)
    IN  IF ~Flag(nc, "enabled") THEN <<>>
        ELSE ProviderRequests(nc, NotificationMessage(config, consultationId, paymentStatus,
                                                      amount, paymentId, userIds))

\* sendPaymentNotification(config, consultationId, paymentStatus, amount,
\* paymentId, consultationData): the provider requests it makes (none or one)
sendPaymentNotification(config, consultationId, paymentStatus, amount, paymentId, consultationData) ==
    LET nc == Field(config, "notifications")
        userIds == Recipients(config, consultationData)
    IN  IF ~Flag(nc, "enabled") THEN <<>>
        ELSE IF userIds = <<>> THEN <<>>
        ELSE ProviderRequests(nc, NotificationMessage(config, consultationId, paymentStatus,
                                                      amount, paymentId, userIds))

\* The try block of sendPaymentNotifications(appConfig, consultationId,
\* paymentStatus, amount, paymentId): the linked record is read and, when
\* found, the notification is sent.  failed: a provider request was made and
\* the provider threw or answered non-2xx.
sendPaymentNotificationsTry(appConfig, consultationId, paymentStatus, amount, paymentId) ==
    LET order == getOrderDetails(appConfig, consultationId)
        sent == IF order.found
                THEN sendPaymentNotification(appConfig, consultationId, paymentStatus,
                                             amount, paymentId, order.doc)
                ELSE <<>>
    IN  [sent |-> sent,
         events |-> order.events \o
                    [i \in DOMAIN sent |-> Ev("notify", sent[i].provider, <<"", consultationId>>)],
         failed |-> \E i \in DOMAIN sent : ~sent[i].ok]

\* a faulty dispatcher that lets the provider's failure escape
sendPaymentNotificationsUncaught(appConfig, consultationId, paymentStatus, amount, paymentId) ==
    LET r == sendPaymentNotificationsTry(appConfig, consultationId, paymentStatus,
                                         amount, paymentId)
    IN  [sent |-> r.sent, events |-> r.events, threw |-> r.failed]

\* sendPaymentNotifications: a non-2xx answer returns, an exception of the
\* provider call or of the recipient lookup is caught and logged
sendPaymentNotifications(appConfig, consultationId, paymentStatus, amount, paymentId) ==
    LET r == sendPaymentNotificationsTry(appConfig, consultationId, paymentStatus,
                                         amount, paymentId)
    IN  [sent |-> r.sent, events |-> r.events, threw |-> FALSE]

\* The promise of sendPaymentNotifications settles.  An exception escaping
\* it would be the handler's to report.
SettleNotify(t) ==
    /\ t \in tasks /\ t.kind = "notify"
    /\ tasks' = tasks \ {t}
    /\ LET r == sendPaymentNotifications(t.appConfig, t.consultationId, t.paymentStatus,
                                         t.amount, t.paymentId)
       IN  /\ outbox' = outbox \o r.sent
           /\ log' = IF t.rid = nreq THEN log \o r.events ELSE log
           /\ resp' = IF r.threw /\ t.rid = nreq THEN ServerErrorResponse ELSE resp
    /\ UNCHANGED <<appConfigs, pin, pout, env, fs, db, payments, nreq, req, pc>>
    /\ UNCHANGED <<orderVars, hookVars>>

-----------------------------------------------------------------------------
(* POST /api/payment/create-order *)

MaxOrders == 1

\* A JSON amount: absent, a string, or a number.  A number is kept as twice
\* its value, so that halves (100.5) are values too.
NoAmount == [type |-> "undefined", twice |-> 0]
StringAmount(n) == [type |-> "string", twice |-> 2 * n]
NumberAmount(twice) == [type |-> "number", twice |-> twice]

\* Math.round: the nearest integer, a half rounded up
MathRound(amount) == (amount.twice + 1) \div 2

\* a faulty validation that also refuses a number that is not an integer
AmountRejectedUnlessInteger(amount) ==
    \/ amount.type # "number"
    \/ amount.twice < 200
    \/ amount.twice % 2 # 0

\* !amount || typeof amount !== 'number' || amount < 100
AmountRejected(amount) ==
    \/ amount.type = "undefined"
    \/ amount.twice = 0
    \/ amount.type # "number"
    \/ amount.twice < 200

\* const {currency = 'INR'} = req.body
CurrencyOf(body) == IF body.currency = "" THEN "INR" ELSE body.currency

GeneratedReceipt == "receipt_generated"

\* Bodies a client can send: every kind of amount in INR, and the amount
\* 50000 with the currency absent, INR or another one
OrderAmounts ==
    {NoAmount, StringAmount(50000), NumberAmount(0), NumberAmount(-200),
     NumberAmount(100), NumberAmount(199), NumberAmount(200), NumberAmount(201),
     NumberAmount(100000)}

OrderBodies ==
    {[amount |-> a, currency |-> "INR", receipt |-> "", consultationId |-> ""] :
        a \in OrderAmounts}
    \cup {[amount |-> NumberAmount(100000), currency |-> c, receipt |-> "rcpt_1",
           consultationId |-> KnownConsultation] : c \in {"", "USD"}}
    \cup {[amount |-> NoAmount, currency |-> "USD", receipt |-> "", consultationId |-> ""]}

\* ids the gateway gives to the orders it creates
GatewayOrderIds == <<OrderId, <<"order_", "2">>, <<"order_", "3">>>>

\* keys of database.ref('orders').push()
PushKeys == <<"-k1", "-k2", "-k3">>

NoOrder == [id |-> <<>>, amount |-> 0, currency |-> "", receipt |-> "", status |-> ""]

\* the order razorpay.orders.create answers with
GatewayOrder(args) ==
    [id |-> GatewayOrderIds[Cardinality({i \in DOMAIN gateway : gateway[i].ok}) + 1],
     amount |-> args.amount, currency |-> args.currency, receipt |-> args.receipt,
     status |-> "created"]

\* the argument of razorpay.orders.create
GatewayArgs(body) ==
    [amount |-> MathRound(body.amount),
     currency |-> CurrencyOf(body),
     receipt |-> IF body.receipt # "" THEN body.receipt ELSE GeneratedReceipt,
     consultationId |-> body.consultationId]

InvalidAmountResponse == [status |-> 400, success |-> FALSE, error |-> "invalid_amount",
                          order |-> NoOrder]
InvalidCurrencyResponse == [status |-> 400, success |-> FALSE, error |-> "invalid_currency",
                            order |-> NoOrder]
OrderFailedResponse == [status |-> 500, success |-> FALSE, error |-> "gateway_error",
                        order |-> NoOrder]
OrderCreatedResponse(order) == [status |-> 200, success |-> TRUE, error |-> "", order |-> order]
NoOrderResponse == [status |-> 0, success |-> FALSE, error |-> "", order |-> NoOrder]

NoOrderRequest ==
    [n |-> 0, pc |-> "idle",
     body |-> [amount |-> NoAmount, currency |-> "", receipt |-> "", consultationId |-> ""]]

\* orderRecord of saveOrderToDatabase
OrderRecord(order, consultationId) ==
    [razorpayOrderId |-> order.id, amount |-> order.amount, currency |-> order.currency,
     receipt |-> order.receipt, status |-> order.status,
     consultationId |-> consultationId, createdAt |-> ServerTimestamp]

\* saveOrderToDatabase(order, notes) called without await: nothing is started
\* when the Realtime Database handle is null
StartSaveOrder(order, consultationId) ==
    IF ~env.database THEN {}
    ELSE {[kind |-> "saveOrder", rid |-> 0, order |-> order,
           consultationId |-> consultationId]}

\* The handler up to its await: validation of amount and currency
CreateOrderReceive(body) ==
    /\ oreq.pc = "idle"
    /\ oreq.n < MaxOrders
    /\ IF AmountRejected(body.amount)
       THEN /\ oreq' = [n |-> oreq.n + 1, pc |-> "idle", body |-> body]
            /\ oresp' = InvalidAmountResponse
       ELSE IF CurrencyOf(body) # "INR"
       THEN /\ oreq' = [n |-> oreq.n + 1, pc |-> "idle", body |-> body]
            /\ oresp' = InvalidCurrencyResponse
       ELSE /\ oreq' = [n |-> oreq.n + 1, pc |-> "awaitGateway", body |-> body]
            /\ oresp' = NoOrderResponse
    /\ UNCHANGED <<appConfigs, pin, pout, env, fs, db, payments, nreq, req, pc, resp,
                   tasks, outbox, log, gateway, hookVars>>

\* a faulty handler that calls the gateway a second time when the first call
\* fails, and answers with the second call's order
AwaitGatewayRetrying(ok) ==
    /\ oreq.pc = "awaitGateway"
    /\ LET args == GatewayArgs(oreq.body)
           order == GatewayOrder(args)
           first == [args |-> args, ok |-> ok, order |-> IF ok THEN order ELSE NoOrder]
           again == [args |-> args, ok |-> TRUE, order |-> order]
       IN  /\ gateway' = IF ok THEN Append(gateway, first) ELSE gateway \o <<first, again>>
           /\ tasks' = tasks \cup StartSaveOrder(order, oreq.body.consultationId)
           /\ oresp' = OrderCreatedResponse(order)
    /\ oreq' = [oreq EXCEPT !.pc = "idle"]
    /\ UNCHANGED <<appConfigs, pin, pout, env, fs, db, payments, nreq, req, pc, resp,
                   outbox, log, hookVars>>

\* await razorpay.orders.create(..): the gateway creates the order, or the
\* call fails and the catch answers 500
AwaitGateway(ok) ==
    /\ oreq.pc = "awaitGateway"
    /\ LET args == GatewayArgs(oreq.body)
           order == GatewayOrder(args)
       IN  /\ gateway' = Append(gateway, [args |-> args, ok |-> ok,
                                          order |-> IF ok THEN order ELSE NoOrder])
           /\ tasks' = IF ok THEN tasks \cup StartSaveOrder(order, oreq.body.consultationId)
                       ELSE tasks
           /\ oresp' = IF ok THEN OrderCreatedResponse(order) ELSE OrderFailedResponse
    /\ oreq' = [oreq EXCEPT !.pc = "idle"]
    /\ UNCHANGED <<appConfigs, pin, pout, env, fs, db, payments, nreq, req, pc, resp,
                   outbox, log, hookVars>>

\* The rest of saveOrderToDatabase: the record is pushed under `orders`; a
\* failing write is caught and logged
SettleSaveOrder(t) ==
    /\ t \in tasks /\ t.kind = "saveOrder"
    /\ tasks' = tasks \ {t}
    /\ LET key == PushKeys[Cardinality({q \in DOMAIN db : q[1] = "orders"}) + 1]
       IN  db' = IF env.dbUp
                 THEN (<<"orders", key>> :> OrderRecord(t.order, t.consultationId)) @@ db
                 ELSE db
    /\ UNCHANGED <<appConfigs, pin, pout, env, fs, payments, nreq, req, pc, resp,
                   outbox, log, orderVars, hookVars>>

-----------------------------------------------------------------------------
(* POST /api/payment/webhook *)

MaxHooks == 1

WebhookSecret == "whsec_1"

NoEvent == [event |-> "", id |-> <<>>, order_id |-> <<>>, amount |-> 0,
            consultationId |-> "", appId |-> ""]

\* A text is either the JSON text of an event or the text every plain
\* object converts to, '[object Object]'
JsonText(event) == [json |-> TRUE, of |-> event]
ObjectString == [json |-> FALSE, of |-> NoEvent]

\* req.body is a Buffer holding a text, or an object
Buffer(text) == [type |-> "Buffer", text |-> text, value |-> NoEvent]
Parsed(event) == [type |-> "Object", text |-> ObjectString, value |-> event]
NoBody == Parsed(NoEvent)

\* Buffer.prototype.toString gives the text, Object.prototype.toString
\* gives '[object Object]'
toString(body) == IF body.type = "Buffer" THEN body.text ELSE ObjectString

\* JSON.parse(text): a SyntaxError for '[object Object]'
JSONparse(text) ==
    IF text.json THEN [threw |-> FALSE, value |-> text.of]
    ELSE [threw |-> TRUE, value |-> NoEvent]

\* app.use(express.json()): a JSON body is read and parsed, req.body is the
\* object and req._body is set
expressJson(r) ==
    IF r.contentType = "application/json" /\ ~r._body
    THEN [r EXCEPT !.body = Parsed(r.raw.of), !._body = TRUE]
    ELSE r

\* express.raw({type: 'application/json'}) on the route: skipped when a
\* body was parsed already, else req.body is the Buffer of the raw body
expressRaw(r) ==
    IF r.contentType = "application/json" /\ ~r._body
    THEN [r EXCEPT !.body = Buffer(r.raw), !._body = TRUE]
    ELSE r

\* the request as the route handler receives it
Incoming(w) ==
    expressRaw(expressJson([contentType |-> "application/json", raw |-> w.raw,
                            signature |-> w.signature, body |-> NoBody, _body |-> FALSE]))

HookReceivedResponse == [status |-> 200, received |-> TRUE, error |-> ""]
SignatureMissingResponse == [status |-> 400, received |-> FALSE, error |-> "signature_missing"]
InvalidSignatureResponse == [status |-> 400, received |-> FALSE, error |-> "invalid_signature"]
HookFailedResponse == [status |-> 500, received |-> FALSE, error |-> "processing_failed"]
NoHookResponse == [status |-> 0, received |-> FALSE, error |-> ""]

NoHook == [n |-> 0, pc |-> "idle", raw |-> JsonText(NoEvent), signature |-> <<>>,
           event |-> NoEvent, status |-> ""]

\* case 'payment.captured' up to its end or its first exception: the record
\* is saved without await when the database handle is set; with a
\* consultationId the argument appConfig is read, a const declared further
\* down in the same switch block and not yet initialised (ReferenceError)
PaymentCaptured(payment) ==
    [tasks |-> StartSavePayment(0, [razorpay_payment_id |-> payment.id,
                                    razorpay_order_id |-> payment.order_id,
                                    razorpay_signature |-> <<>>,
                                    amount |-> payment.amount,
                                    consultationId |-> payment.consultationId]),
     threw |-> payment.consultationId # ""]

\* case 'payment.failed': the status handed to updateOrderPaymentStatus for
\* an event with a consultationId.  The tenant is the one the payment notes
\* name, else `default`; the gate is a test payment id, a test key or the
\* tenant's autoDetect.
PaymentFailedStatus(failedPayment) ==
    LET appId == IF failedPayment.appId # "" THEN failedPayment.appId ELSE "default"
        appConfig == mergeWithDefault(getAppConfig(appId))
        isTestMode == \/ isTestPayment(failedPayment.id, env.keyId, FALSE)
                      \/ Flag(Field(appConfig, "testMode"), "autoDetect")
    IN  IF failedPayment.consultationId = "" THEN ""
        ELSE IF isTestMode /\ shouldBookOnFailure(appConfig) THEN "pending"
        ELSE "failed"

\* The handler from its entry to its response.  The cases payment.failed
\* and order.paid have awaits of their own: the handler is left at the case,
\* payment.failed with the status it is about to write.
WebhookReceive(w) ==
    /\ wreq.pc = "idle"
    /\ wreq.n < MaxHooks
    /\ LET r == Incoming(w)
           text == toString(r.body)
           parsed == JSONparse(text)
           event == parsed.value
           captured == PaymentCaptured(event)
           base == [n |-> wreq.n + 1, pc |-> "idle", raw |-> w.raw,
                    signature |-> w.signature, event |-> NoEvent, status |-> ""]
       IN
       IF env.webhookSecret = ""
       THEN wreq' = base /\ wresp' = HookReceivedResponse /\ tasks' = tasks
       ELSE IF r.signature = <<>>
       THEN wreq' = base /\ wresp' = SignatureMissingResponse /\ tasks' = tasks
       ELSE IF Hmac(env.webhookSecret, text) # r.signature
       THEN wreq' = base /\ wresp' = InvalidSignatureResponse /\ tasks' = tasks
       ELSE IF parsed.threw
       THEN wreq' = base /\ wresp' = HookFailedResponse /\ tasks' = tasks
       ELSE IF event.event = "payment.captured"
       THEN /\ wreq' = [base EXCEPT !.event = event]
            /\ tasks' = tasks \cup captured.tasks
            /\ wresp' = IF captured.threw THEN HookFailedResponse ELSE HookReceivedResponse
       ELSE IF event.event \in {"payment.failed", "order.paid"}
       THEN /\ wreq' = [base EXCEPT !.event = event, !.pc = event.event,
                                   !.status = IF event.event = "payment.failed"
                                              THEN PaymentFailedStatus(event) ELSE ""]
            /\ tasks' = tasks
            /\ wresp' = NoHookResponse
       ELSE wreq' = [base EXCEPT !.event = event] /\ wresp' = HookReceivedResponse
            /\ tasks' = tasks
    /\ UNCHANGED <<appConfigs, pin, pout, env, fs, db, payments, nreq, req, pc, resp,
                   outbox, log, orderVars>>

\* The process environments examined: the gateway key is a test or a live
\* key; Firebase is configured or not; each backend answers or fails; the
\* notification provider answers, or fails while the store is healthy.
Environments ==
    {e \in [keyId : {<<"rzp_test_", "k">>, <<"rzp_live_", "k">>},
            keySecret : {GatewaySecret},
            database : BOOLEAN, fsUp : BOOLEAN, dbUp : BOOLEAN,
            onesignalKey : {""}, providerUp : BOOLEAN,
            webhookSecret : {WebhookSecret}] :
        /\ ~e.database => (~e.fsUp /\ ~e.dbUp)
        /\ ~e.providerUp => (e.fsUp /\ e.dbUp)}

UsersDocs == (<<"users", "admin1">> :> [role |-> "admin"])
LinkedDocs == (<<"consultations", KnownConsultation>> :> LinkedRecord)

NoRequest ==
    [body |-> [razorpay_order_id |-> <<>>, razorpay_payment_id |-> <<>>,
               razorpay_signature |-> <<>>, consultationId |-> "", amount |-> 0,
               isTestMode |-> FALSE, headers |-> ""],
     appConfig |-> EmptyObj, appId |-> "", valid |-> FALSE, outcome |-> "",
     update |-> EmptyObj]

HandlerIdle ==
    /\ payments = <<>>
    /\ nreq = 0
    /\ req = NoRequest
    /\ pc = "idle"
    /\ resp = NoResponse
    /\ tasks = {}
    /\ outbox = <<>>
    /\ log = <<>>
    /\ gateway = <<>>
    /\ oreq = NoOrderRequest
    /\ oresp = NoOrderResponse
    /\ wreq = NoHook
    /\ wresp = NoHookResponse

Init ==
    /\ appConfigs = MultiMapping
    /\ pin = [done |-> FALSE]
    /\ pout = [done |-> FALSE]
    /\ env \in Environments
    /\ \E home \in {"firestore", "rtdb"} :
          /\ fs = IF home = "firestore" THEN LinkedDocs @@ UsersDocs ELSE UsersDocs
          /\ db = IF home = "rtdb" THEN LinkedDocs @@ UsersDocs ELSE UsersDocs
    /\ HandlerIdle

Next ==
    \/ \E body \in VerifyBodies : VerifyReceive(body)
    \/ AwaitUpdate
    \/ VerifyRespond
    \/ \E t \in tasks : SettleSavePayment(t)
    \/ \E t \in tasks : SettleNotify(t)

\* the server as the pure-function specifications leave it: not started
RestEnv ==
    [keyId |-> <<"rzp_test_", "k">>, keySecret |-> GatewaySecret,
     database |-> FALSE, fsUp |-> FALSE, dbUp |-> FALSE, onesignalKey |-> "",
     providerUp |-> TRUE, webhookSecret |-> WebhookSecret]

StoreAtRest ==
    /\ fs = UsersDocs
    /\ db = UsersDocs
    /\ HandlerIdle

ServerAtRest ==
    /\ env = RestEnv
    /\ StoreAtRest

-----------------------------------------------------------------------------
(* Checkout: orders are created, and created orders are verified *)

\* a live gateway key; Firebase not configured, healthy, or failing
OrderEnvironments ==
    {e \in Environments : /\ e.keyId = <<"rzp_live_", "k">>
                          /\ e.providerUp
                          /\ e.fsUp = e.dbUp}

\* the orders the gateway has created so far
CreatedOrders == {gateway[i].order : i \in {j \in DOMAIN gateway : gateway[j].ok}}

\* Verify bodies of a client that paid a created order: the signature is
\* correctly computed, the payment id is any, the amount is sent or not
CheckoutBodies ==
    {[razorpay_order_id |-> o.id, razorpay_payment_id |-> p,
      razorpay_signature |-> GoodSignature(o.id, p),
      consultationId |-> "", amount |-> a, isTestMode |-> FALSE, headers |-> ""] :
        o \in CreatedOrders, p \in {LivePaymentId, TestPaymentId}, a \in {0, 50000}}

InitOrder ==
    /\ appConfigs = MultiMapping
    /\ pin = [done |-> FALSE]
    /\ pout = [done |-> FALSE]
    /\ env \in OrderEnvironments
    /\ fs = LinkedDocs @@ UsersDocs
    /\ db = UsersDocs
    /\ HandlerIdle

NextOrder ==
    \/ \E body \in OrderBodies : CreateOrderReceive(body)
    \/ \E ok \in BOOLEAN : AwaitGateway(ok)
    \/ \E t \in tasks : SettleSaveOrder(t)
    \/ \E body \in CheckoutBodies : VerifyReceive(body)
    \/ \E t \in tasks : SettleSavePayment(t)

-----------------------------------------------------------------------------
(* Webhook deliveries *)

\* events of the gateway: a payment or an order of a consultation or of none
HookEvents ==
    {[event |-> k, id |-> p, order_id |-> OrderId, amount |-> 50000,
      consultationId |-> c, appId |-> ""] :
        k \in {"payment.captured", "payment.failed", "order.paid", "refund.created"},
        p \in {LivePaymentId, TestPaymentId},
        c \in {"", KnownConsultation}}

\* Deliveries: the raw body is the JSON text of an event; the signature
\* header is absent, the HMAC of the raw body under the webhook secret or
\* under another secret, the HMAC of '[object Object]', or the HMAC of
\* another body
HookSignatures(raw) ==
    {<<>>, Hmac(WebhookSecret, raw), Hmac("other_secret", raw),
     Hmac(WebhookSecret, ObjectString)}

\* an event other than the delivered ones, signed under the webhook secret
ReplayedEvent == [event |-> "payment.captured", id |-> LivePaymentId, order_id |-> OrderId,
                  amount |-> 100, consultationId |-> KnownConsultation, appId |-> ""]

HookRequests ==
    UNION {{[raw |-> JsonText(e), signature |-> g] :
               g \in HookSignatures(JsonText(e)) \cup {Hmac(WebhookSecret, JsonText(ReplayedEvent))}} :
           e \in HookEvents}

\* the webhook secret is configured or not
HookEnvironments ==
    {[e EXCEPT !.webhookSecret = w] : e \in OrderEnvironments, w \in {"", WebhookSecret}}

InitWebhook ==
    /\ appConfigs = MultiMapping
    /\ pin = [done |-> FALSE]
    /\ pout = [done |-> FALSE]
    /\ env \in HookEnvironments
    /\ fs = LinkedDocs @@ UsersDocs
    /\ db = UsersDocs
    /\ HandlerIdle

NextWebhook == \E w \in HookRequests : WebhookReceive(w)

-----------------------------------------------------------------------------
(* Tenants with a record-store mapping of their own *)

\* a tenant entry that names its own collections (README_MULTI_APP.md)
ShopCollections ==
    [orders |-> "purchases", consultations |-> "bookings",
     payments |-> "receipts", users |-> "members"]

ShopConfig == [name |-> "Shop", orderUpdate |-> [collections |-> ShopCollections]]

\* a tenant that switches the order update off, and a tenant notified
\* through an endpoint of its own
OffConfig == [name |-> "Off", orderUpdate |-> [enabled |-> FALSE]]
HookedConfig ==
    [name |-> "Hooked",
     notifications |-> [provider |-> "custom", customEndpoint |-> "https://hooks"]]

TenantMapping ==
    MultiMapping \o <<Entry("shop", ShopConfig), Entry("off", OffConfig),
                      Entry("hooked", HookedConfig)>>

\* the tenant's linked record and admin, in the tenant's collections
ShopDocs ==
    (<<"bookings", KnownConsultation>> :> LinkedRecord)
    @@ (<<"members", "admin2">> :> [role |-> "admin"])

\* a live gateway key; Firebase and the provider as in every environment
TenantEnvironments == {e \in Environments : e.keyId = <<"rzp_live_", "k">>}

\* verify bodies of the default tenant and of the tenants `shop`, `off`
\* and `hooked`
TenantBodies ==
    {b \in CompleteBodies : b.consultationId # UnknownConsultation /\ ~b.isTestMode
                            /\ b.headers = ""}
    \cup {[b EXCEPT !.headers = h] :
            b \in {c \in CompleteBodies : c.consultationId # UnknownConsultation
                                          /\ ~c.isTestMode /\ c.headers = ""},
            h \in {"shop", "off", "hooked"}}

InitTenant ==
    /\ appConfigs = TenantMapping
    /\ pin = [done |-> FALSE]
    /\ pout = [done |-> FALSE]
    /\ env \in TenantEnvironments
    /\ \E home \in {"firestore", "rtdb"} :
          /\ fs = IF home = "firestore" THEN ShopDocs @@ LinkedDocs @@ UsersDocs ELSE UsersDocs
          /\ db = IF home = "rtdb" THEN ShopDocs @@ LinkedDocs @@ UsersDocs ELSE UsersDocs
    /\ HandlerIdle

-----------------------------------------------------------------------------
(* Retries: the same verified payment is submitted again *)

MaxRetries == 2

\* the client repeats a verify request with a valid signature for one
\* payment id, with or without a consultation
RetryBodies ==
    {b \in CompleteBodies :
        /\ b.razorpay_signature = GoodSignature(OrderId, LivePaymentId)
        /\ b.razorpay_payment_id = LivePaymentId
        /\ b.consultationId # UnknownConsultation
        /\ ~b.isTestMode /\ b.headers = ""}

\* the same payment submitted with the gateway's signature, and submitted
\* with a signature that does not verify
RepeatBodies ==
    RetryBodies
    \cup {[b EXCEPT !.razorpay_signature = BadSignature(OrderId, LivePaymentId)] :
            b \in RetryBodies}

NextRepeat ==
    \/ \E body \in RepeatBodies : VerifyArrives(body, MaxRetries)
    \/ AwaitUpdate
    \/ VerifyRespond
    \/ \E t \in tasks : SettleSavePayment(t)
    \/ \E t \in tasks : SettleNotify(t)

NextRetry ==
    \/ \E body \in RetryBodies : VerifyArrives(body, MaxRetries)
    \/ AwaitUpdate
    \/ VerifyRespond
    \/ \E t \in tasks : SettleSavePayment(t)
    \/ \E t \in tasks : SettleNotify(t)

NextTenant ==
    \/ \E body \in TenantBodies : VerifyReceive(body)
    \/ AwaitUpdate
    \/ VerifyRespond
    \/ \E t \in tasks : SettleSavePayment(t)
    \/ \E t \in tasks : SettleNotify(t)

-----------------------------------------------------------------------------
(* Tenant resolution examined as a function of the request and the mapping *)

\* values a tenant id source can carry: absent, a configured tenant, an
\* unconfigured name, and a name every JavaScript object inherits
AppIdValues == {"", "medifind", "strict", "ghost", "constructor"}

ResolveInputs ==
    [headers : AppIdValues, query : AppIdValues, notes : AppIdValues, body : AppIdValues]

NotRun == [done |-> FALSE]

InitResolve ==
    /\ appConfigs \in LoadableMappings
    /\ pin \in ResolveInputs
    /\ pout = NotRun
    /\ ServerAtRest

ApplyResolve ==
    /\ pout = NotRun
    /\ pout' = [done |-> TRUE,
                appId |-> getAppIdFromRequest(pin),
                config |-> getAppConfig(getAppIdFromRequest(pin)),
                attached |-> AttachAppConfig(pin)]
    /\ UNCHANGED <<appConfigs, pin, serverVars>>

NextResolve == ApplyResolve

\* mappings a deployment can load that have no `default` entry
NoDefaultMappings ==
    {<<Entry("strict", StrictConfig), Entry("medifind", MedifindConfig)>>,
     <<Entry("medifind", MedifindConfig), Entry("strict", StrictConfig)>>,
     <<Entry("strict", StrictConfig), Entry("nobook", NoBookConfig)>>}

InitFallback ==
    /\ appConfigs \in NoDefaultMappings
    /\ pin \in ResolveInputs
    /\ pout = NotRun
    /\ ServerAtRest

-----------------------------------------------------------------------------
(* The signature check examined on its own *)

MaxIdLen == 2

\* identifiers over an alphabet that holds the separator
IdAlphabet == {"a", "|"}
Ids == UNION {[1..n -> IdAlphabet] : n \in 1..MaxIdLen}
Secrets == {GatewaySecret, "other_secret"}

\* a digest that is the HMAC of nothing
GarbageSignature == [key |-> "", msg |-> <<>>]

\* The request carries orderId and paymentId; the signature it presents was
\* made by a signer holding `secret` over the signer's own two ids, or is
\* no HMAC at all.
SignatureInputs ==
    [orderId : Ids, paymentId : Ids,
     signedOrderId : Ids, signedPaymentId : Ids, secret : Secrets, garbage : BOOLEAN]

PresentedSignature(i) ==
    IF i.garbage THEN GarbageSignature
    ELSE Hmac(i.secret, Text(i.signedOrderId, i.signedPaymentId))

InitSignature ==
    /\ appConfigs = RepoMapping
    /\ pin \in SignatureInputs
    /\ pout = NotRun
    /\ env \in {[RestEnv EXCEPT !.keySecret = k] : k \in Secrets}
    /\ StoreAtRest

ApplySignature ==
    /\ pout = NotRun
    /\ pout' = [done |-> TRUE,
                valid |-> isSignatureValid(env.keySecret, pin.orderId, pin.paymentId,
                                           PresentedSignature(pin))]
    /\ UNCHANGED <<appConfigs, pin, serverVars>>

NextSignature == ApplySignature

-----------------------------------------------------------------------------
(* mergeWithDefault examined on partial tenant entries *)

\* an optional key: <<>> when the tenant omits it, <<v>> when it gives v
Opt(k, o) == IF o = <<>> THEN EmptyObj ELSE (k :> o[1])

NotificationOverrides ==
    {<<>>,
     <<[provider |-> "custom"]>>,
     <<[enabled |-> FALSE]>>,
     <<[onesignal |-> [appId |-> "os_app2"]]>>,
     <<[provider |-> "custom", onesignal |-> [restApiKey |-> "os_key2"]]>>,
     <<[provider |-> "custom", customEndpoint |-> "https://app2/notify"]>>}

OrderUpdateOverrides ==
    {<<>>,
     <<[enabled |-> FALSE]>>,
     <<[collections |-> [consultations |-> "appointments"]]>>,
     <<[useFirebase |-> FALSE, endpoint |-> "https://app2/orders"]>>}

TestModeOverrides ==
    {<<>>,
     <<[bookOnPaymentFailure |-> FALSE]>>,
     <<[autoDetect |-> FALSE]>>,
     <<[autoDetect |-> FALSE, bookOnPaymentFailure |-> FALSE]>>}

NameOverrides == {<<>>, <<"App2">>}

PartialConfigs ==
    {Opt("name", nm) @@ Opt("notifications", n) @@ Opt("orderUpdate", o) @@ Opt("testMode", t) :
        nm \in NameOverrides, n \in NotificationOverrides,
        o \in OrderUpdateOverrides, t \in TestModeOverrides}

InitMerge ==
    /\ appConfigs \in LoadableMappings
    /\ pin \in PartialConfigs
    /\ pout = NotRun
    /\ ServerAtRest

\* a faulty merge that assigns the tenant's keys into the default entry
\* itself (Object.assign on defaultConfig)
ApplyMergeInPlace ==
    /\ pout = NotRun
    /\ pout' = [done |-> TRUE, merged |-> mergeWithDefault(pin)]
    /\ appConfigs' = [i \in DOMAIN appConfigs |->
                         IF appConfigs[i].id = "default"
                         THEN Entry("default", mergeWithDefault(pin))
                         ELSE appConfigs[i]]
    /\ UNCHANGED <<pin, serverVars>>

ApplyMerge ==
    /\ pout = NotRun
    /\ pout' = [done |-> TRUE, merged |-> mergeWithDefault(pin)]
    /\ UNCHANGED <<appConfigs, pin, serverVars>>

NextMerge == ApplyMerge

-----------------------------------------------------------------------------
(* The notification service examined on its own *)

\* tenant entries by their notifications settings: the default (OneSignal),
\* disabled, the providers none and fcm, an unknown provider, custom without
\* and with an endpoint, and OneSignal without a REST API key
NotifyTenants ==
    {DefaultConfig,
     [notifications |-> [enabled |-> FALSE]],
     [notifications |-> [provider |-> "none"]],
     [notifications |-> [provider |-> "fcm"]],
     [notifications |-> [provider |-> "pigeon"]],
     CustomConfig,
     [notifications |-> [provider |-> "custom", customEndpoint |-> "https://hooks"]],
     [notifications |-> [onesignal |-> [restApiKey |-> ""]]]}

\* linked records by their identity fields: the patient may be an admin,
\* and a field may be absent
NotifyRecords ==
    [patientId : {"", "patient1", "admin1"}, userId : {"", "user1"},
     doctorId : {"", "doctor1"}, providerId : {"", "provider1"},
     sellerId : {""}, doctorName : {"Dr. A"}]

NotifyInputs ==
    [tenant : NotifyTenants, record : NotifyRecords, paymentStatus : {"paid", "failed"}]

\* users collections: no admin, one admin, two admins
NoAdminDocs == (<<"users", "user1">> :> [role |-> "patient"])
TwoAdminDocs == UsersDocs @@ (<<"users", "admin2">> :> [role |-> "admin"])

NotifyEnvironments ==
    {[RestEnv EXCEPT !.database = TRUE, !.fsUp = f, !.dbUp = d, !.providerUp = u] :
        f \in BOOLEAN, d \in BOOLEAN, u \in BOOLEAN}

InitNotify ==
    /\ appConfigs = MultiMapping
    /\ pin \in NotifyInputs
    /\ pout = NotRun
    /\ env \in NotifyEnvironments
    /\ \E users \in {NoAdminDocs, UsersDocs, TwoAdminDocs} : fs = users /\ db = users
    /\ HandlerIdle

\* sendPaymentNotification for the tenant's merged config and a linked record
ApplyNotify ==
    /\ pout = NotRun
    /\ LET config == mergeWithDefault(pin.tenant) IN
       pout' = [done |-> TRUE, config |-> config,
                userIds |-> Recipients(config, pin.record),
                sent |-> sendPaymentNotification(config, KnownConsultation, pin.paymentStatus,
                                                 50000, LivePaymentId, pin.record)]
    /\ UNCHANGED <<appConfigs, pin, serverVars>>

NextNotify == ApplyNotify

-----------------------------------------------------------------------------
(* The record-store adapter examined on its own *)

\* tenant entries by their orderUpdate settings: Firebase with the default
\* collections, Firebase with collections of the tenant's own, disabled, a
\* custom endpoint, and neither Firebase nor an endpoint
AdapterTenants ==
    {DefaultConfig,
     ShopConfig,
     [orderUpdate |-> [enabled |-> FALSE]],
     [orderUpdate |-> [useFirebase |-> FALSE, endpoint |-> "https://orders"]],
     [orderUpdate |-> [useFirebase |-> FALSE]]}

AdapterInputs ==
    [tenant : AdapterTenants, orderId : {KnownConsultation, UnknownConsultation},
     paymentStatus : {"paid", "failed"}, paymentId : {LivePaymentId, <<>>}]

\* what a backend holds: no record, the record as a consultation, as an
\* order, as both, or in the collections of the tenant `shop`
AdapterStores ==
    {UsersDocs,
     UsersDocs @@ LinkedDocs,
     UsersDocs @@ (<<"orders", KnownConsultation>> :> LinkedRecord),
     UsersDocs @@ LinkedDocs @@ (<<"orders", KnownConsultation>> :> LinkedRecord),
     UsersDocs @@ ShopDocs}

AdapterEnvironments ==
    {[RestEnv EXCEPT !.database = TRUE, !.fsUp = f, !.dbUp = d] : f \in BOOLEAN, d \in BOOLEAN}

InitAdapter ==
    /\ appConfigs = TenantMapping
    /\ pin \in AdapterInputs
    /\ pout = NotRun
    /\ env \in AdapterEnvironments
    /\ fs \in AdapterStores
    /\ db \in AdapterStores
    /\ HandlerIdle

\* await updateOrderPaymentStatus(appConfig, orderId, paymentStatus, paymentId)
ApplyUpdate ==
    /\ pout = NotRun
    /\ LET config == mergeWithDefault(pin.tenant)
           r == updateOrderPaymentStatus(config, pin.orderId, pin.paymentStatus, pin.paymentId)
       IN  /\ fs' = r.fs
           /\ db' = r.db
           /\ pout' = [done |-> TRUE, op |-> "update", config |-> config, threw |-> r.threw,
                       found |-> FALSE, doc |-> EmptyObj, events |-> r.events]
    /\ UNCHANGED <<appConfigs, pin, env, payments, nreq, req, pc, resp, tasks, outbox, log,
                   orderVars, hookVars>>

\* await getOrderDetails(appConfig, orderId)
ApplyGet ==
    /\ pout = NotRun
    /\ LET config == mergeWithDefault(pin.tenant)
           r == getOrderDetails(config, pin.orderId)
       IN  pout' = [done |-> TRUE, op |-> "get", config |-> config, threw |-> FALSE,
                    found |-> r.found, doc |-> r.doc, events |-> r.events]
    /\ UNCHANGED <<appConfigs, pin, serverVars>>

NextAdapter == ApplyUpdate \/ ApplyGet

-----------------------------------------------------------------------------
vars == <<appConfigs, pin, pout, env, fs, db, payments, nreq, req, pc, resp, tasks, outbox, log,
          gateway, oreq, oresp, wreq, wresp>>

Spec == Init /\ [][Next]_vars
SpecResolve == InitResolve /\ [][NextResolve]_vars
SpecMerge == InitMerge /\ [][NextMerge]_vars
SpecSignature == InitSignature /\ [][NextSignature]_vars
SpecOrder == InitOrder /\ [][NextOrder]_vars
SpecWebhook == InitWebhook /\ [][NextWebhook]_vars
SpecFallback == InitFallback /\ [][NextResolve]_vars
SpecTenant == InitTenant /\ [][NextTenant]_vars
SpecRetry == InitOrder /\ [][NextRetry]_vars
SpecNotify == InitNotify /\ [][NextNotify]_vars
SpecAdapter == InitAdapter /\ [][NextAdapter]_vars
SpecRepeat == InitOrder /\ [][NextRepeat]_vars

-----------------------------------------------------------------------------
(* C1: getAppIdFromRequest returns the first non-empty of header, query,    *)
(* body.notes.appId, body.appId, whatever the lower-priority sources hold,  *)
(* and null when all four are empty.                                        *)
C1_PriorityOrder ==
    pout.done =>
        /\ pin.headers # "" => pout.appId = pin.headers
        /\ (pin.headers = "" /\ pin.query # "") => pout.appId = pin.query
        /\ (pin.headers = "" /\ pin.query = "" /\ pin.notes # "") => pout.appId = pin.notes
        /\ (pin.headers = "" /\ pin.query = "" /\ pin.notes = "" /\ pin.body # "")
              => pout.appId = pin.body
        /\ (pin.headers = "" /\ pin.query = "" /\ pin.notes = "" /\ pin.body = "")
              => pout.appId = Null

\* a lower-priority source disagrees with the winning header
C1_Witness ==
    /\ pout.done
    /\ pin.headers = "strict" /\ pin.query = "medifind" /\ pin.body = "ghost"
    /\ pout.appId = "strict"

(* C2: for a tenant id that is no key of the loaded mapping, and for no     *)
(* tenant id, getAppConfig returns the `default` entry and the config       *)
(* attached to the request equals the default config on every field.        *)
C2_UnknownTenantGetsDefault ==
    (pout.done /\ pout.appId \notin OwnKeys(appConfigs)) =>
        /\ pout.config = Own(appConfigs, "default")
        /\ pout.attached.appConfig = Own(appConfigs, "default")

(* C3: mergeWithDefault overlays the tenant's keys on the default's, one    *)
(* level at a time, for notifications, notifications.onesignal,             *)
(* orderUpdate, orderUpdate.collections and testMode; a key the tenant      *)
(* does not name, a whole nested object included, keeps the default's       *)
(* value.                                                                   *)
Overlay(d, a) == [k \in DOMAIN d \cup DOMAIN a |-> IF k \in DOMAIN a THEN a[k] ELSE d[k]]

OverlayExcept(m, d, a, nested) ==
    \A k \in (DOMAIN d \cup DOMAIN a) \ nested :
        k \in DOMAIN m /\ m[k] = (IF k \in DOMAIN a THEN a[k] ELSE d[k])

C3_ShallowOverlay ==
    pout.done =>
        LET d == Own(appConfigs, "default")
            a == pin
            m == pout.merged
        IN  /\ OverlayExcept(m, d, a, {"notifications", "orderUpdate", "testMode"})
            /\ OverlayExcept(m.notifications, d.notifications,
                             Field(a, "notifications"), {"onesignal"})
            /\ m.notifications.onesignal =
                  Overlay(d.notifications.onesignal,
                          Field(Field(a, "notifications"), "onesignal"))
            /\ OverlayExcept(m.orderUpdate, d.orderUpdate,
                             Field(a, "orderUpdate"), {"collections"})
            /\ m.orderUpdate.collections =
                  Overlay(d.orderUpdate.collections,
                          Field(Field(a, "orderUpdate"), "collections"))
            /\ m.testMode = Overlay(d.testMode, Field(a, "testMode"))
            /\ "notifications" \notin DOMAIN a => m.notifications = d.notifications
            /\ "orderUpdate" \notin DOMAIN a => m.orderUpdate = d.orderUpdate
            /\ "testMode" \notin DOMAIN a => m.testMode = d.testMode
            /\ a = [notifications |-> [provider |-> "custom"]] =>
                  /\ m.notifications.provider = "custom"
                  /\ m.notifications.onesignal = d.notifications.onesignal
                  /\ m.notifications.enabled = d.notifications.enabled
                  /\ \A k \in DOMAIN d \ {"notifications"} : m[k] = d[k]

\* the override {notifications: {provider: 'custom'}} has been merged
C3_Witness ==
    /\ pout.done
    /\ pin = [notifications |-> [provider |-> "custom"]]
    /\ pout.merged.notifications.provider = "custom"
    /\ pout.merged.notifications.onesignal.appId = "os_medifind"

(* C4: the signature check accepts exactly the hex HMAC-SHA256 of           *)
(* orderId + '|' + paymentId under the gateway secret: it accepts the       *)
(* signature made with that secret over the request's two ids, and rejects  *)
(* one made with another secret, one made over another orderId or another   *)
(* paymentId, and a digest that is no such HMAC.                            *)
C4_SignatureExact ==
    pout.done =>
        LET sameOrder == pin.signedOrderId = pin.orderId
            samePayment == pin.signedPaymentId = pin.paymentId
            sameSecret == pin.secret = env.keySecret
        IN  /\ (~pin.garbage /\ sameSecret /\ sameOrder /\ samePayment) => pout.valid
            /\ (~pin.garbage /\ ~sameSecret) => ~pout.valid
            /\ (~pin.garbage /\ ~sameOrder /\ samePayment) => ~pout.valid
            /\ (~pin.garbage /\ sameOrder /\ ~samePayment) => ~pout.valid
            /\ pin.garbage => ~pout.valid
            /\ pout.valid <=>
                  /\ ~pin.garbage /\ sameSecret
                  /\ Text(pin.signedOrderId, pin.signedPaymentId) = Text(pin.orderId, pin.paymentId)

\* a correctly signed request is accepted
C4_Witness ==
    /\ pout.done /\ pout.valid
    /\ ~pin.garbage /\ pin.secret = env.keySecret
    /\ pin.signedOrderId = pin.orderId /\ pin.signedPaymentId = pin.paymentId
    /\ pin.orderId = <<"a", "|">>

-----------------------------------------------------------------------------
(* Vocabulary of the statements about the verify handler *)

Received == nreq > 0
Body == req.body

DetailAbsent ==
    \/ Body.razorpay_order_id = <<>>
    \/ Body.razorpay_payment_id = <<>>
    \/ Body.razorpay_signature = <<>>

SignatureMatches ==
    /\ ~DetailAbsent
    /\ Body.razorpay_signature =
          [key |-> env.keySecret,
           msg |-> Body.razorpay_order_id \o <<"|">> \o Body.razorpay_payment_id]

SignatureMismatches == ~DetailAbsent /\ ~SignatureMatches

\* a test indicator: the payment id pattern, the gateway key type, or the
\* request's own declaration
TestIndicator ==
    \/ Body.razorpay_payment_id[1] = "pay_test_"
    \/ env.keyId[1] = "rzp_test_"
    \/ Body.isTestMode

BookOnFailureIs(v) ==
    /\ "testMode" \in DOMAIN req.appConfig
    /\ "bookOnPaymentFailure" \in DOMAIN req.appConfig.testMode
    /\ req.appConfig.testMode.bookOnPaymentFailure = v

\* the linked record, in the backend that holds it
LinkedPath == <<"consultations", KnownConsultation>>
LinkedStore == IF LinkedPath \in DOMAIN fs THEN "firestore" ELSE "rtdb"
LinkedDoc == IF LinkedPath \in DOMAIN fs THEN fs[LinkedPath] ELSE db[LinkedPath]
LinkedReachable ==
    IF LinkedPath \in DOMAIN fs THEN env.fsUp ELSE (LinkedPath \in DOMAIN db /\ env.dbUp)

OwnTasks == {t \in tasks : t.rid = nreq}
Settled == pc = "idle" /\ OwnTasks = {}

StoreWrites == {i \in DOMAIN log : log[i].op \in {"write", "insert", "patch"}}
StoreReads == {i \in DOMAIN log : log[i].op \in {"read", "get"}}
Notifications == {i \in DOMAIN log : log[i].op = "notify"}

WroteLinked(data) ==
    \E i \in DOMAIN log :
        /\ log[i].op = "write" /\ log[i].store = LinkedStore
        /\ log[i].path = LinkedPath /\ log[i].data = data

\* the step in which the awaited update of the linked record completes
UpdateCompletes == pc = "awaitUpdate" /\ pc' = "updated"

(* C5: a verify request lacking razorpay_order_id, razorpay_payment_id or   *)
(* razorpay_signature is answered 400, and no record-store read or write    *)
(* and no notification is made for it, then or later.                       *)
C5_MissingDetailsRejected ==
    (Received /\ DetailAbsent) =>
        /\ pc = "idle"
        /\ resp.status = 400 /\ ~resp.success /\ resp.error = "missing_details"
        /\ log = <<>>
        /\ OwnTasks = {}
        /\ nreq = 1 => (payments = <<>> /\ outbox = <<>> /\ LinkedDoc = LinkedRecord)

\* only the signature is absent, and a linked record is named
C5_Witness ==
    /\ Received /\ pc = "idle"
    /\ Body.razorpay_signature = <<>>
    /\ Body.razorpay_order_id # <<>> /\ Body.razorpay_payment_id # <<>>
    /\ Body.consultationId = KnownConsultation
    /\ env.database /\ env.fsUp /\ env.dbUp
    /\ resp.status = 400

(* C6: a verify request whose signature matches ends in Success whatever    *)
(* isTestMode, the payment id pattern, the key type and the tenant's        *)
(* testMode are: the response is success:true, the status handed to the     *)
(* record store is 'paid', and the linked record the adapter finds is       *)
(* 'paid'.                                                                  *)
C6_ValidNeverDowngraded ==
    (Received /\ SignatureMatches) =>
        /\ req.outcome = "Success"
        /\ resp \in {NoResponse, SuccessResponse}
        /\ pc = "idle" => (resp.status = 200 /\ resp.success /\ ~resp.consultation_booked)
        /\ Body.consultationId # "" => req.update.paymentStatus = "paid"
        /\ \A i \in StoreWrites : log[i].op = "write" => log[i].data.paymentStatus = "paid"
        /\ (pc \in {"updated", "idle"} /\ Body.consultationId # "") =>
              LET order == getOrderDetails(req.appConfig, Body.consultationId)
              IN  order.found => order.doc.paymentStatus = "paid"

\* every test indicator is set and the tenant books on failure, yet the
\* request succeeded
C6_Witness ==
    /\ Received /\ SignatureMatches /\ pc = "idle"
    /\ Body.isTestMode /\ Body.razorpay_payment_id = TestPaymentId
    /\ env.keyId[1] = "rzp_test_" /\ BookOnFailureIs(TRUE)
    /\ Body.consultationId = KnownConsultation
    /\ resp.success
    /\ LinkedDoc.paymentStatus = "paid"

(* C7, as claimed: on a matching signature, with the store and the provider *)
(* available, a payments record with status 'completed' and verified true   *)
(* is inserted; with a consultationId the linked record gets paymentStatus  *)
(* 'paid', the payment id and paidAt; and a success notification is         *)
(* dispatched.                                                              *)
StoreAvailable == env.database /\ env.fsUp /\ env.dbUp
ProviderAvailable == env.providerUp

PaidData ==
    [paymentStatus |-> "paid", updatedAt |-> ServerTimestamp,
     paymentId |-> Body.razorpay_payment_id, paidAt |-> ServerTimestamp]

CompletedRecordInserted ==
    \E i \in DOMAIN payments :
        /\ payments[i].razorpayPaymentId = Body.razorpay_payment_id
        /\ payments[i].razorpayOrderId = Body.razorpay_order_id
        /\ payments[i].status = "completed"
        /\ payments[i].verified = TRUE

SuccessNotified ==
    /\ Notifications # {}
    /\ \E i \in DOMAIN outbox :
          /\ outbox[i].type = "payment_success"
          /\ outbox[i].paymentId = Body.razorpay_payment_id
          /\ outbox[i].userIds # <<>>
          /\ outbox[i].ok

C7_Original ==
    (Received /\ SignatureMatches /\ StoreAvailable /\ ProviderAvailable /\ Settled) =>
        /\ CompletedRecordInserted
        /\ Body.consultationId = KnownConsultation => WroteLinked(PaidData)
        /\ SuccessNotified

(* C7, amended: the success notification is dispatched when the             *)
(* consultationId names an existing linked record; a request without a      *)
(* consultationId notifies nobody.  The update of the linked record         *)
(* changes exactly paymentStatus, paymentId, paidAt and updatedAt.          *)
C7_SuccessEffectsState ==
    (Received /\ SignatureMatches /\ StoreAvailable /\ ProviderAvailable /\ Settled) =>
        /\ CompletedRecordInserted
        /\ Body.consultationId = KnownConsultation =>
              (WroteLinked(PaidData) /\ SuccessNotified)
        /\ Body.consultationId = "" => (Notifications = {} /\ StoreReads = {})

C7_SuccessEffectsStep ==
    (Received /\ SignatureMatches /\ StoreAvailable /\ UpdateCompletes
        /\ Body.consultationId = KnownConsultation) =>
        LinkedDoc' = PaidData @@ LinkedDoc

C7_SuccessEffects == []C7_SuccessEffectsState /\ [][C7_SuccessEffectsStep]_vars

\* a verified payment for the linked record, all side effects settled
C7_Witness ==
    /\ Received /\ SignatureMatches /\ StoreAvailable /\ Settled
    /\ Body.consultationId = KnownConsultation
    /\ CompletedRecordInserted /\ SuccessNotified
    /\ LinkedDoc.paymentStatus = "paid" /\ LinkedDoc.paidAt = ServerTimestamp
    /\ LinkedDoc.paymentId = Body.razorpay_payment_id

(* C8: a request whose signature does not match takes the soft-fail path    *)
(* only if a test indicator holds (payment id 'pay_test_', key id           *)
(* 'rzp_test_', or isTestMode) and testMode.bookOnPaymentFailure is not     *)
(* false; with no test indicator it is a hard fail.                         *)
C8_SoftFailNeedsTestIndicator ==
    (Received /\ SignatureMismatches) =>
        /\ req.outcome = "TestModeSoftFail" => (TestIndicator /\ ~BookOnFailureIs(FALSE))
        /\ ~TestIndicator => (req.outcome = "HardFail" /\ resp = HardFailResponse)

(* C9, as claimed: signature mismatch, testMode.bookOnPaymentFailure true   *)
(* and the consultationId of an existing (and reachable) linked record:     *)
(* the record's paymentStatus is set to 'pending' and the response is       *)
(* success:false with consultation_booked:true.                             *)
PendingData == [paymentStatus |-> "pending", updatedAt |-> ServerTimestamp]

C9_Case ==
    /\ Received /\ SignatureMismatches /\ BookOnFailureIs(TRUE)
    /\ Body.consultationId = KnownConsultation /\ LinkedReachable

C9_Original ==
    (C9_Case /\ pc = "idle") =>
        /\ WroteLinked(PendingData)
        /\ ~resp.success /\ resp.consultation_booked

(* C9, amended: the same when, in addition, a test indicator holds (the     *)
(* test-mode gate of the soft-fail transition).                             *)
C9_SoftFailBooksState ==
    (C9_Case /\ TestIndicator) =>
        /\ req.outcome = "TestModeSoftFail"
        /\ pc \in {"updated", "idle"} => WroteLinked(PendingData)
        /\ pc = "idle" => (~resp.success /\ resp.consultation_booked /\ resp.status = 200)

C9_SoftFailBooksStep ==
    (C9_Case /\ TestIndicator /\ UpdateCompletes) =>
        /\ LinkedDoc'.paymentStatus = "pending"
        /\ LinkedDoc'.updatedAt = ServerTimestamp
        /\ LinkedDoc' = PendingData @@ LinkedDoc

C9_SoftFailBooks == []C9_SoftFailBooksState /\ [][C9_SoftFailBooksStep]_vars

\* the soft-fail response has been sent and the record is 'pending', touched
C9_Witness ==
    /\ C9_Case /\ TestIndicator /\ pc = "idle"
    /\ resp.consultation_booked /\ ~resp.success
    /\ LinkedDoc.paymentStatus = "pending" /\ LinkedDoc.updatedAt = ServerTimestamp

(* C10: signature mismatch and testMode.bookOnPaymentFailure false: the     *)
(* linked record is left as it is, no record-store write is made, and the   *)
(* response is 400 success:false without the booked flag, whatever the      *)
(* test indicators are.                                                     *)
C10_NoBookHardFail ==
    (Received /\ SignatureMismatches /\ BookOnFailureIs(FALSE)) =>
        /\ req.outcome = "HardFail"
        /\ pc = "idle"
        /\ resp.status = 400 /\ ~resp.success /\ ~resp.consultation_booked
        /\ StoreWrites = {}
        /\ OwnTasks = {}
        /\ nreq = 1 => (LinkedDoc = LinkedRecord /\ payments = <<>>)

\* every test indicator holds, the record is reachable, and still nothing
\* was booked
C10_Witness ==
    /\ Received /\ SignatureMismatches /\ BookOnFailureIs(FALSE)
    /\ Body.isTestMode /\ Body.razorpay_payment_id = TestPaymentId
    /\ env.keyId[1] = "rzp_test_"
    /\ Body.consultationId = KnownConsultation /\ LinkedReachable
    /\ resp.status = 400
    /\ LinkedDoc = LinkedRecord

(* C11: every verify request that reaches the signature decision leaves a   *)
(* payments record once its side effects have settled: 'completed' and      *)
(* verified when the signature matches, 'failed' when it does not (soft     *)
(* fail included).                                                          *)
FailedRecordInserted ==
    \E i \in DOMAIN payments :
        /\ payments[i].razorpayPaymentId = Body.razorpay_payment_id
        /\ payments[i].status = "failed"

C11_AttemptAlwaysRecorded ==
    (Received /\ ~DetailAbsent /\ StoreAvailable /\ Settled) =>
        /\ SignatureMatches => CompletedRecordInserted
        /\ SignatureMismatches => FailedRecordInserted

(* C12: whatever the record store does during a verify request whose        *)
(* signature matches (not configured, a backend failing on read, insert or  *)
(* update), the response is the success response, the same as when          *)
(* persistence succeeds, and never a 4xx or 5xx one.                        *)
C12_PersistenceNeverFailsVerify ==
    (Received /\ SignatureMatches) =>
        /\ resp.status \notin 400..599
        /\ pc = "idle" => resp = SuccessResponse
        /\ pc # "idle" => resp = NoResponse

\* Firebase is configured, both backends fail, a linked record is named, and
\* the request has been answered with success after the failed update
C12_Witness ==
    /\ Received /\ SignatureMatches /\ Settled
    /\ env.database /\ ~env.fsUp /\ ~env.dbUp
    /\ Body.consultationId = KnownConsultation
    /\ resp = SuccessResponse
    /\ payments = <<>> /\ StoreWrites = {}

(* C13: a notification provider call that throws or answers non-2xx, and a  *)
(* failing admin-recipient lookup, are caught: the response of the request  *)
(* is the one its decision determines, and the settling of the              *)
(* notification promise leaves the response as it was sent.                 *)
DecidedResponse ==
    IF DetailAbsent THEN MissingResponse
    ELSE IF SignatureMatches THEN SuccessResponse
    ELSE IF req.outcome = "TestModeSoftFail" THEN SoftFailResponse
    ELSE HardFailResponse

NotifySettles ==
    \E t \in tasks : t.kind = "notify" /\ tasks' = tasks \ {t}

ProviderFailed == \E i \in DOMAIN outbox : ~outbox[i].ok

AdminLookupFailed == env.database /\ ~env.fsUp /\ ~env.dbUp

C13_NotificationFailureState ==
    (Received /\ pc = "idle") => resp = DecidedResponse

C13_NotificationFailureStep ==
    NotifySettles => (resp' = resp /\ pc' = pc)

SuccessSettled ==
    /\ Received /\ SignatureMatches /\ Settled
    /\ Body.consultationId = KnownConsultation
    /\ env.database

C14_Original ==
    SuccessSettled =>
        /\ env.dbUp => CompletedRecordInserted
        /\ LinkedReachable => WroteLinked(PaidData)
        /\ Notifications # {}

(* C14, amended: the insert, the update and the notification do not block   *)
(* one another or the response, except that the notification needs the      *)
(* linked record to be read: it is dispatched when the record is reachable  *)
(* (also when the insert failed or the provider fails), and it is not       *)
(* dispatched when every backend fails.                                     *)
C14_BestEffortEffects ==
    SuccessSettled =>
        /\ resp = SuccessResponse
        /\ env.dbUp => CompletedRecordInserted
        /\ LinkedReachable => (WroteLinked(PaidData) /\ Notifications # {})
        /\ (~env.fsUp /\ ~env.dbUp) => (Notifications = {} /\ StoreWrites = {})

\* the insert into payments failed; the update and the notification were made
C14_Witness ==
    /\ SuccessSettled
    /\ ~env.dbUp /\ env.fsUp /\ LinkedStore = "firestore"
    /\ ~CompletedRecordInserted
    /\ WroteLinked(PaidData) /\ Notifications # {}

\* the step in which res.json / res.status(..).json is called
ResponseSent == resp = NoResponse /\ resp' # NoResponse

(* C15: the verify response is sent without awaiting any persistence or     *)
(* notification side effect: the response is never held back until the     *)
(* update of the linked record has completed.                               *)
C15_ResponseAwaitsNothing ==
    [][ResponseSent => pc # "updated"]_vars

\* the fields an update of a linked record may set
PaymentFields == {"paymentStatus", "paymentId", "paidAt", "updatedAt"}

\* the linked order/consultation documents of a store
LinkedPaths(store) == {p \in DOMAIN store : p[1] \in {"consultations", "orders"}}

\* from document `old` to document `new` only payment fields changed
OnlyPaymentFieldsChanged(old, new) ==
    /\ DOMAIN new \subseteq DOMAIN old \cup PaymentFields
    /\ \A k \in DOMAIN old \ PaymentFields : k \in DOMAIN new /\ new[k] = old[k]

(* C16: every step that writes a linked order/consultation record, in       *)
(* Firestore or in the Realtime Database, changes only the fields           *)
(* paymentStatus, paymentId, paidAt and updatedAt; every other field of the *)
(* record keeps its value, and no record is removed.                        *)
C16_LinkedFrameStep ==
    /\ \A p \in LinkedPaths(fs) :
          p \in DOMAIN fs' /\ OnlyPaymentFieldsChanged(fs[p], fs'[p])
    /\ \A p \in LinkedPaths(db) :
          p \in DOMAIN db' /\ OnlyPaymentFieldsChanged(db[p], db'[p])

-----------------------------------------------------------------------------
(* Claims about create-order *)

OrderReceived == oreq.n > 0
OrderBody == oreq.body

\* the step in which a create-order request arrives
OrderArrives == oreq'.n = oreq.n + 1

\* the step in which razorpay.orders.create is called
GatewayCalled == gateway' # gateway

NotInteger(amount) == amount.twice % 2 # 0

\* what the handler refuses: no number, a number below 100, another currency
OrderRefused(body) ==
    \/ body.amount.type # "number"
    \/ body.amount.twice < 2 * 100
    \/ body.currency \notin {"", "INR"}

\* what is claimed to be refused: also a number that is not an integer
OrderInvalid(body) ==
    \/ OrderRefused(body)
    \/ NotInteger(body.amount)

\* the nearest integer of an amount, a half going up
Nearest(amount) == IF NotInteger(amount) THEN (amount.twice + 1) \div 2 ELSE amount.twice \div 2

LastCall == gateway[Len(gateway)]

(* C17, as claimed: a request whose amount is missing, not a number, not a  *)
(* positive integer or below 100, or whose currency is not INR, is answered *)
(* 400 and reaches neither the gateway nor the record store; any other      *)
(* request reaches the gateway with its amount unchanged.                   *)
C17_OriginalState ==
    /\ (OrderReceived /\ OrderInvalid(OrderBody)) =>
            (oreq.pc = "idle" /\ oresp.status = 400)
    /\ (OrderReceived /\ ~OrderInvalid(OrderBody)) =>
            (oreq.pc = "awaitGateway" \/ oresp.status \in {200, 500})

C17_OriginalStep ==
    /\ (OrderArrives /\ OrderInvalid(oreq'.body)) => UNCHANGED <<gateway, tasks, fs, db, payments>>
    /\ GatewayCalled =>
          /\ ~OrderInvalid(OrderBody)
          /\ gateway' = Append(gateway, LastCall')
          /\ 2 * LastCall'.args.amount = OrderBody.amount.twice

C17_Original == []C17_OriginalState /\ [][C17_OriginalStep]_vars

(* C17, amended: a request whose amount is missing, zero, not a number or   *)
(* below 100, or whose currency is not INR, is answered 400 and reaches     *)
(* neither the gateway nor the record store; any other request reaches the  *)
(* gateway once, with the amount rounded to the nearest integer: an integer *)
(* amount unchanged, a non-integer amount of at least 100 rounded.          *)
C17_ValidationState ==
    /\ (OrderReceived /\ OrderRefused(OrderBody)) =>
            (oreq.pc = "idle" /\ oresp.status = 400)
    /\ (OrderReceived /\ ~OrderRefused(OrderBody)) =>
            (oreq.pc = "awaitGateway" \/ oresp.status \in {200, 500})

C17_ValidationStep ==
    /\ (OrderArrives /\ OrderRefused(oreq'.body)) => UNCHANGED <<gateway, tasks, fs, db, payments>>
    /\ GatewayCalled =>
          /\ ~OrderRefused(OrderBody)
          /\ gateway' = Append(gateway, LastCall')
          /\ LastCall'.args.amount = Nearest(OrderBody.amount)
          /\ LastCall'.args.currency = "INR"
    /\ (db' # db /\ ~GatewayCalled) =>
          \E o \in CreatedOrders : \E q \in DOMAIN db' \ DOMAIN db :
              db'[q].razorpayOrderId = o.id /\ db'[q].amount = o.amount

C17_OrderValidation == []C17_ValidationState /\ [][C17_ValidationStep]_vars

\* an amount of 100.5 was accepted and the gateway created an order of 101
C17_Witness ==
    /\ OrderReceived /\ oreq.pc = "idle"
    /\ OrderBody.amount = NumberAmount(201)
    /\ oresp.status = 200 /\ oresp.order.amount = 101
    /\ LastCall.args.amount = 101

\* a verify request for a created order of 50000 was answered and all that
\* it started has settled
PaidOrderVerified(o) ==
    /\ o.amount = 50000 /\ o.status = "created"
    /\ Received /\ Body.razorpay_order_id = o.id
    /\ SignatureMatches /\ Settled

(* C18: after an order of 50000 was created, a verify request with the      *)
(* correctly computed signature for that order and any payment id is        *)
(* answered success, and once its side effects have completed (the record   *)
(* store being available) a payments record exists with status completed,   *)
(* verified true and the order's amount 50000, whether or not the verify    *)
(* body repeats the amount.                                                 *)
C18_OrderAmountRecorded ==
    \A o \in CreatedOrders :
        (PaidOrderVerified(o) /\ StoreAvailable) =>
            /\ resp = SuccessResponse
            /\ \E i \in DOMAIN payments :
                  /\ payments[i].razorpayOrderId = o.id
                  /\ payments[i].razorpayPaymentId = Body.razorpay_payment_id
                  /\ payments[i].status = "completed"
                  /\ payments[i].verified = TRUE
                  /\ payments[i].amount = 50000

-----------------------------------------------------------------------------
(* Claims about the webhook *)

HookReceived == wreq.n > 0
HookSecretSet == env.webhookSecret # ""

\* the delivered event, as the gateway serialised it into the raw body
DeliveredEvent == wreq.raw.of

\* the signature header is the HMAC of the raw body under the webhook secret
GenuineSignature ==
    HookSecretSet /\ wreq.signature = Hmac(env.webhookSecret, wreq.raw)

\* nothing was written, started or sent
NoHookEffects ==
    /\ tasks = {} /\ payments = <<>> /\ outbox = <<>>
    /\ fs = LinkedDocs @@ UsersDocs
    /\ db = UsersDocs

(* C19: the webhook endpoint writes nothing and notifies nobody unless the  *)
(* signature header is the HMAC of the raw body under the webhook secret; a *)
(* delivery whose signature is missing or mismatches is answered 400 and    *)
(* has no effect; without a configured secret the delivery is acknowledged  *)
(* and its event is not processed.                                          *)
C19_WebhookGuarded ==
    HookReceived =>
        /\ ~HookSecretSet => (wresp = HookReceivedResponse /\ NoHookEffects)
        /\ (HookSecretSet /\ ~GenuineSignature) => (wresp.status = 400 /\ NoHookEffects)
        /\ ~NoHookEffects => GenuineSignature

(* C20: a delivery signed with the HMAC of its raw body under the webhook   *)
(* secret, carrying payment.captured with a consultationId, is processed to *)
(* completion: once handled, with a healthy store, the response is 200      *)
(* received, the linked record is paid with the payment id, and a           *)
(* notification was dispatched.                                             *)
C20_CapturedProcessed ==
    ( /\ HookReceived /\ wreq.pc = "idle" /\ tasks = {}
      /\ GenuineSignature
      /\ DeliveredEvent.event = "payment.captured"
      /\ DeliveredEvent.consultationId = KnownConsultation
      /\ StoreAvailable /\ ProviderAvailable )
    =>
        /\ wresp = HookReceivedResponse
        /\ fs[LinkedPath].paymentStatus = "paid"
        /\ fs[LinkedPath].paymentId = DeliveredEvent.id
        /\ outbox # <<>>

-----------------------------------------------------------------------------
(* C21: when the loaded mapping has no `default` entry, getAppConfig        *)
(* returns the first entry of the mapping in iteration order, for no tenant *)
(* id and for a tenant id that is no key of the mapping alike.              *)
C21_FirstEntryFallback ==
    (pout.done /\ "default" \notin OwnKeys(appConfigs)
               /\ pout.appId \notin OwnKeys(appConfigs)) =>
        pout.config = appConfigs[1].cfg

\* the collection and node names of the tenant config attached to the request
TenantCollections ==
    LET c == req.appConfig.orderUpdate.collections IN {c[k] : k \in DOMAIN c}

(* C22: every record-store read and write made for a verify request targets *)
(* a collection or node named by the resolved tenant config's               *)
(* orderUpdate.collections mapping; nothing is written under a hard-coded   *)
(* name that differs from the tenant's mapping.                             *)
C22_TenantCollectionsOnly ==
    Received =>
        \A i \in DOMAIN log :
            log[i].op \in {"read", "write", "insert"} =>
                log[i].path[1] \in TenantCollections

\* the request has taken a branch that has side effects
EffectsDecided ==
    \/ SignatureMatches /\ req.valid /\ req.outcome = "Success"
    \/ SignatureMismatches /\ ~req.valid /\ req.outcome = "TestModeSoftFail"

\* promises started in this step
NewTasks == tasks' \ tasks

(* C23: within one verify request no side effect (payments insert, read or  *)
(* update of the linked record, notification) is started before the         *)
(* signature comparison has produced its boolean and the branch is taken,   *)
(* the payments insert is started only for a matching signature, and the    *)
(* response is sent only once the decision is made and is the response of   *)
(* that decision; the decision of a request never changes afterwards.       *)
C23_DecisionFirstState ==
    Received =>
        /\ (OwnTasks # {} \/ log # <<>> \/ pc # "idle") => EffectsDecided
        /\ (\E t \in OwnTasks : t.kind = "savePayment") => SignatureMatches
        /\ resp # NoResponse => (req.outcome # "" /\ resp = DecidedResponse)

C23_DecisionFirstStep ==
    /\ NewTasks # {} =>
          /\ \A t \in NewTasks : t.rid = nreq'
          /\ EffectsDecided'
          /\ resp' = NoResponse \/ pc' = "idle"
    /\ ((fs' # fs \/ db' # db) /\ tasks' = tasks) => (pc = "awaitUpdate" /\ EffectsDecided)
    /\ nreq' = nreq => req' = req

C23_DecisionFirst == []C23_DecisionFirstState /\ [][C23_DecisionFirstStep]_vars

\* a soft fail: the mismatch is established, the update is in flight and no
\* response has been sent yet
C23_Witness ==
    /\ Received /\ SignatureMismatches
    /\ req.outcome = "TestModeSoftFail"
    /\ pc = "awaitUpdate" /\ resp = NoResponse

\* the records of the payments node for one payment id
RecordsOf(paymentId) ==
    {i \in DOMAIN payments : payments[i].razorpayPaymentId = paymentId}

(* C24: the payments node is an append-only log: a step that changes it     *)
(* adds one record under a fresh key and leaves every existing record as it *)
(* is; and, the Realtime Database being configured and healthy, k verify    *)
(* requests with a valid signature for one payment id leave k records for   *)
(* that payment id once their inserts have settled (no idempotency key).    *)
C24_AppendOnlyState ==
    /\ Len(payments) <= nreq
    /\ (env.database /\ env.dbUp /\ pc = "idle" /\ tasks = {}) =>
          /\ Cardinality(RecordsOf(LivePaymentId)) = nreq
          /\ \A i \in DOMAIN payments :
                payments[i].status = "completed" /\ payments[i].verified = TRUE

C24_AppendOnlyStep ==
    payments' # payments =>
        /\ Len(payments') = Len(payments) + 1
        /\ SubSeq(payments', 1, Len(payments)) = payments

C24_AppendOnly == []C24_AppendOnlyState /\ [][C24_AppendOnlyStep]_vars

\* two requests for the same payment id have left two records
C24_Witness ==
    /\ nreq = 2 /\ pc = "idle" /\ tasks = {}
    /\ Len(payments) = 2
    /\ payments[1].razorpayPaymentId = payments[2].razorpayPaymentId
    /\ payments[1].razorpayOrderId = payments[2].razorpayOrderId

-----------------------------------------------------------------------------
(* Claims about the notification service *)

\* the users with role 'admin' in the backend that answers
AdminsOf(store) == {q[2] : q \in {r \in DOMAIN store : r[1] = "users" /\ store[r].role = "admin"}}
ReachableAdmins == IF env.fsUp THEN AdminsOf(fs) ELSE IF env.dbUp THEN AdminsOf(db) ELSE {}

\* the record's patient/user id and doctor/provider id, "" when it has none
PatientOf(r) == IF r.patientId # "" THEN r.patientId ELSE r.userId
DoctorOf(r) == IF r.doctorId # "" THEN r.doctorId
               ELSE IF r.providerId # "" THEN r.providerId ELSE r.sellerId

Positions(ids, x) == {i \in DOMAIN ids : ids[i] = x}

(* C25: the recipient list handed to the provider is the record's           *)
(* patient/user id, then its doctor/provider id, then every admin, in that  *)
(* order, and no id occurs in it more than once, also when one id fills two *)
(* roles.                                                                   *)
C25_RecipientsOrderedOnce ==
    (pout.done /\ pout.sent # <<>>) =>
        LET ids == pout.sent[1].userIds
            p == PatientOf(pin.record)
            d == DoctorOf(pin.record)
        IN  /\ {ids[i] : i \in DOMAIN ids} = ({p, d} \ {""}) \cup ReachableAdmins
            /\ \A i, j \in DOMAIN ids : ids[i] = ids[j] => i = j
            /\ p # "" => ids[1] = p
            /\ (d # "" /\ d # p) => ids[IF p # "" THEN 2 ELSE 1] = d

(* C26: when recipient resolution yields no id, no provider request is made, *)
(* and no provider request ever carries an empty recipient list.            *)
C26_NoEmptyDispatch ==
    pout.done =>
        /\ pout.userIds = <<>> => pout.sent = <<>>
        /\ \A i \in DOMAIN pout.sent : pout.sent[i].userIds # <<>>

\* notifications are enabled with a custom endpoint, and nobody is to be told
C26_Witness ==
    /\ pout.done
    /\ pout.userIds = <<>>
    /\ pout.config.notifications.enabled
    /\ pout.config.notifications.provider = "custom"
    /\ Str(pout.config.notifications, "customEndpoint", "") # ""
    /\ pout.sent = <<>>

\* the provider the tenant's merged config names, and whether it can be sent to
ConfiguredProvider == pout.config.notifications.provider
ProviderSilent ==
    \/ ~pout.config.notifications.enabled
    \/ ConfiguredProvider \notin {"onesignal", "custom"}
    \/ ConfiguredProvider = "custom" /\ Str(pout.config.notifications, "customEndpoint", "") = ""

(* C27: the provider is the one the tenant config names: with notifications *)
(* disabled, provider none, fcm or unknown, or custom without an endpoint,  *)
(* no provider request is made; otherwise at most one request is made, to   *)
(* the configured provider, also when the provider answers non-2xx.         *)
C27_ProviderByConfig ==
    pout.done =>
        /\ ProviderSilent => pout.sent = <<>>
        /\ Len(pout.sent) <= 1
        /\ \A i \in DOMAIN pout.sent : pout.sent[i].provider = ConfiguredProvider

\* one request went out to a provider that answered non-2xx
C27_Witness ==
    /\ pout.done
    /\ ~env.providerUp
    /\ Len(pout.sent) = 1
    /\ ConfiguredProvider = "custom"

-----------------------------------------------------------------------------
(* Claims about the record-store adapter *)

\* the collections the tenant's merged config names for consultations and orders
AdapterCollections(config) ==
    LET c == config.orderUpdate.collections IN {c.consultations, c.orders}

\* the id names a consultation or an order in one of the two backends
ExistsSomewhere(config, orderId) ==
    \E c \in AdapterCollections(config) :
        <<c, orderId>> \in DOMAIN fs \/ <<c, orderId>> \in DOMAIN db

BackendWrites(events) ==
    {i \in DOMAIN events : events[i].op = "write" /\ events[i].store \in {"firestore", "rtdb"}}

(* C28: updateOrderPaymentStatus for an id that is in no consultations or   *)
(* orders collection of either backend writes to no backend, leaves both    *)
(* backends with the documents they had, and returns without throwing.      *)
C28_UnknownIdUntouched ==
    [][(ApplyUpdate /\ ~ExistsSomewhere(mergeWithDefault(pin.tenant), pin.orderId)) =>
            /\ fs' = fs
            /\ db' = db
            /\ BackendWrites(pout'.events) = {}
            /\ ~pout'.threw]_vars

\* both backends were asked for an id they do not hold
C28_Witness ==
    /\ pout.done
    /\ pout.op = "update"
    /\ ~ExistsSomewhere(pout.config, pin.orderId)
    /\ \E i \in DOMAIN pout.events : pout.events[i].store = "firestore"
    /\ \E i \in DOMAIN pout.events : pout.events[i].store = "rtdb"

(* C29: for one get or update, when Firestore is reachable and answers,     *)
(* also with `not found`, the Realtime Database is neither read nor         *)
(* written.                                                                 *)
C29_SecondBackendOnlyWhenFirstDown ==
    (pout.done /\ pout.op \in {"get", "update"} /\ env.fsUp) =>
        \A i \in DOMAIN pout.events : pout.events[i].store # "rtdb"

-----------------------------------------------------------------------------
(* Claims about order creation *)

SaveOrderTasks(ts) == {t \in ts : t.kind = "saveOrder"}
OrderDocs(store) == {q \in DOMAIN store : q[1] = "orders"}

\* the gateway was called no more often than requests arrived, and every
\* Order on its way to the store, or in it, is an order the gateway created
C30_GatewayState ==
    /\ Len(gateway) <= oreq.n
    /\ \A t \in SaveOrderTasks(tasks) : t.order \in CreatedOrders
    /\ \A q \in OrderDocs(db) : \E o \in CreatedOrders : db[q].razorpayOrderId = o.id
    /\ (OrderReceived /\ oreq.pc = "idle" /\ oresp.status \notin {400, 500}) =>
            (oresp.status = 200 /\ gateway # <<>> /\ LastCall.ok /\ oresp.order = LastCall.order)

C30_GatewayStep ==
    /\ GatewayCalled =>
          /\ oreq.pc = "awaitGateway" /\ oreq'.pc = "idle"
          /\ gateway' = Append(gateway, LastCall')
          /\ ~LastCall'.ok =>
                /\ oresp' = OrderFailedResponse
                /\ UNCHANGED <<tasks, fs, db, payments>>
    /\ SaveOrderTasks(tasks') # SaveOrderTasks(tasks) /\ ~GatewayCalled =>
          /\ oresp' = oresp
          /\ ~env.dbUp => db' = db

(* C30: a create-order request calls the gateway at most once; when the     *)
(* call fails the request is answered with the error, the gateway is not    *)
(* called again and no Order is handed to the store; when it succeeds the   *)
(* answer is the created order, and the background write of the Order,      *)
(* failing or not, leaves that answer as it is.                             *)
C30_GatewayOnce == []C30_GatewayState /\ [][C30_GatewayStep]_vars

\* the order was created and answered, and its background write has failed
C30_Witness ==
    /\ Len(gateway) = 1
    /\ gateway[1].ok
    /\ oresp = OrderCreatedResponse(gateway[1].order)
    /\ env.database /\ ~env.dbUp
    /\ SaveOrderTasks(tasks) = {}
    /\ OrderDocs(db) = {}

-----------------------------------------------------------------------------
(* Claims about failed payments and about records already paid *)

\* the test-mode gate of a delivered payment event, for the tenant its notes
\* name: a test payment id, a test key, or the tenant's autoDetect
HookTenant == mergeWithDefault(getAppConfig(IF DeliveredEvent.appId # "" THEN DeliveredEvent.appId
                                            ELSE "default"))
HookGate ==
    \/ StartsWith(DeliveredEvent.id, "pay_test_")
    \/ StartsWith(env.keyId, "rzp_test_")
    \/ HookTenant.testMode.autoDetect

(* C31: once a genuine payment.failed delivery for a stored consultation is *)
(* handled, with a healthy store, the linked record is written with         *)
(* paymentStatus 'pending' when the test-mode gate holds and the tenant's   *)
(* bookOnPaymentFailure is not false, and is otherwise the record it was.   *)
C31_FailedEventRule ==
    ( /\ HookReceived /\ wreq.pc = "idle" /\ tasks = {}
      /\ GenuineSignature
      /\ DeliveredEvent.event = "payment.failed"
      /\ DeliveredEvent.consultationId = KnownConsultation
      /\ StoreAvailable )
    =>
        IF HookGate /\ HookTenant.testMode.bookOnPaymentFailure # FALSE
        THEN /\ fs[LinkedPath].paymentStatus = "pending"
             /\ fs[LinkedPath].updatedAt = ServerTimestamp
        ELSE fs[LinkedPath] = LinkedRecord

(* C32: a linked record whose paymentStatus is 'paid' keeps that status in  *)
(* every later step: no later verify request, the soft fail of an invalid   *)
(* signature included, and no later webhook event sets it to 'pending' or   *)
(* 'failed'.                                                                *)
C32_PaidStaysPaid ==
    [][(LinkedPath \in DOMAIN fs /\ fs[LinkedPath].paymentStatus = "paid")
            => fs'[LinkedPath].paymentStatus = "paid"]_vars

\* the ids of the consultation and order records of both backends
LinkedIds(f, d) == {p[2] : p \in LinkedPaths(f) \cup LinkedPaths(d)}

(* C33: no step of a verify request or of its background work creates a     *)
(* consultation or order record: every id that names such a record after    *)
(* the step named one, in some backend, before it.                          *)
C33_NoRecordCreated ==
    [][LinkedIds(fs', db') \subseteq LinkedIds(fs, db)]_vars

-----------------------------------------------------------------------------
(* Claims about tenants with settings of their own *)

\* an operation of the current request on a consultation or order record
LinkedOps ==
    {i \in DOMAIN log : /\ log[i].op \in {"read", "write"}
                        /\ log[i].path[1] \in
                              {req.appConfig.orderUpdate.collections.consultations,
                               req.appConfig.orderUpdate.collections.orders,
                               "consultations", "orders"}}

(* C34: for a tenant whose orderUpdate.enabled is false, a verify request   *)
(* reads no consultation or order record, writes none, and dispatches no    *)
(* notification, also when notifications are enabled.                       *)
C34_DisabledTouchesNothing ==
    (Received /\ req.appConfig.orderUpdate.enabled = FALSE) =>
        /\ LinkedOps = {}
        /\ Notifications = {}
        /\ outbox = <<>>

-----------------------------------------------------------------------------
(* Claims about the record the adapter chooses *)

\* the four places of a record in their priority: Firestore consultations,
\* Firestore orders, Realtime Database consultations, Realtime Database
\* orders, for the collections the merged tenant config names
Places(config, orderId) ==
    LET c == config.orderUpdate.collections IN
    <<[store |-> "firestore", path |-> <<c.consultations, orderId>>],
      [store |-> "firestore", path |-> <<c.orders, orderId>>],
      [store |-> "rtdb", path |-> <<c.consultations, orderId>>],
      [store |-> "rtdb", path |-> <<c.orders, orderId>>]>>

\* the place holds the record, in a backend that answers
Holds(place) ==
    IF place.store = "firestore" THEN env.fsUp /\ place.path \in DOMAIN fs
    ELSE env.dbUp /\ place.path \in DOMAIN db

UsesFirebase(config) == config.orderUpdate.enabled /\ config.orderUpdate.useFirebase

\* the indexes of the places that hold the record; the least is the target
Held(config, orderId) ==
    IF UsesFirebase(config)
    THEN {i \in 1..4 : Holds(Places(config, orderId)[i])}
    ELSE {}
Target(config, orderId) ==
    Places(config, orderId)[CHOOSE i \in Held(config, orderId) :
                                \A j \in Held(config, orderId) : i <= j]

\* store `new` is store `old` but for the document at `path`
OnlyAt(old, new, path) ==
    /\ DOMAIN new = DOMAIN old
    /\ \A q \in DOMAIN old : q # path => new[q] = old[q]

C35_UpdateAtTarget ==
    LET config == mergeWithDefault(pin.tenant)
        held == Held(config, pin.orderId)
        target == Target(config, pin.orderId)
        writes == {i \in DOMAIN pout'.events : pout'.events[i].op = "write"}
    IN  IF held = {} THEN fs' = fs /\ db' = db /\ writes = {}
        ELSE /\ Cardinality(writes) = 1
             /\ \A i \in writes : /\ pout'.events[i].store = target.store
                                   /\ pout'.events[i].path = target.path
             /\ IF target.store = "firestore"
                THEN /\ OnlyAt(fs, fs', target.path) /\ db' = db
                     /\ fs'[target.path].paymentStatus = pin.paymentStatus
                ELSE /\ OnlyAt(db, db', target.path) /\ fs' = fs
                     /\ db'[target.path].paymentStatus = pin.paymentStatus

C35_GetAtTarget ==
    LET config == mergeWithDefault(pin.tenant)
        held == Held(config, pin.orderId)
        target == Target(config, pin.orderId)
        last == pout'.events[Len(pout'.events)]
    IN  /\ pout'.found <=> held # {}
        /\ held # {} =>
              /\ last.op = "read" /\ last.store = target.store /\ last.path = target.path
              /\ pout'.doc = IF target.store = "firestore" THEN fs[target.path]
                             ELSE db[target.path]

-----------------------------------------------------------------------------
(* Claims about failures that name no consultation *)

\* the request has its three payment details, a signature that does not
\* verify, and no consultationId
UnlinkedMismatch(r) ==
    /\ ~MissingDetails(r.body)
    /\ ~r.valid
    /\ r.body.consultationId = ""

C36_HardFailState ==
    (Received /\ UnlinkedMismatch(req)) =>
        /\ pc = "idle"
        /\ resp = HardFailResponse
        /\ log = <<>>
        /\ OwnTasks = {}

C36_HardFailStep ==
    (nreq' = nreq + 1 /\ UnlinkedMismatch(req')) =>
        UNCHANGED <<fs, db, payments, outbox, tasks>>

(* C36: a verify request with an invalid signature and no consultationId is *)
(* answered 400 without a booked flag, for every test indicator and every   *)
(* tenant testMode setting, and it reads and writes no store, starts no     *)
(* background work and sends no notification.                               *)
C36_UnlinkedHardFail == []C36_HardFailState /\ [][C36_HardFailStep]_vars

\* every test indicator is set and the tenant books on failure
C36_Witness ==
    /\ Received /\ UnlinkedMismatch(req)
    /\ Body.isTestMode /\ Body.razorpay_payment_id = TestPaymentId
    /\ env.keyId[1] = "rzp_test_"
    /\ req.appConfig.testMode.autoDetect /\ req.appConfig.testMode.bookOnPaymentFailure
    /\ StoreAvailable
    /\ resp.status = 400 /\ ~resp.consultation_booked

-----------------------------------------------------------------------------
(* Claims about the text of failure notifications *)

\* the current request wrote a linked record with paymentStatus 'pending'
LeftBooked ==
    \E i \in DOMAIN log : log[i].op = "write" /\ log[i].data.paymentStatus = "pending"

(* C37: a failure notification says that the consultation will still be     *)
(* booked exactly when the request that sent it set the linked record to    *)
(* 'pending'; so every notification of a soft fail says it, whichever       *)
(* provider the tenant has configured.                                      *)
C37_BookedTextIffBooked ==
    \A i \in DOMAIN outbox :
        outbox[i].type = "payment_failed" => (outbox[i].stillBooked <=> LeftBooked)

-----------------------------------------------------------------------------
(* Claims about the lifetime of the tenant mapping *)

\* merging a merged config again gives the same config, and every tenant id
\* still resolves to an entry of the mapping or to an inherited member
C38_MergeState ==
    pout.done =>
        /\ mergeWithDefault(pout.merged) = pout.merged
        /\ \A id \in OwnKeys(loadAppConfigs) : getAppConfig(id) = Own(appConfigs, id)

(* C38: the tenant mapping is the same in every state: no call of           *)
(* loadAppConfigs, getAppConfig or mergeWithDefault changes the mapping or  *)
(* one of its entries, and mergeWithDefault is idempotent: merging a merged *)
(* config gives an equal config.                                            *)
C38_MappingImmutable == []C38_MergeState /\ [][appConfigs' = appConfigs]_vars

\* a tenant that overrides nested keys was merged into a config that is
\* neither the tenant's entry nor the default
C38_Witness ==
    /\ pout.done
    /\ "notifications" \in DOMAIN pin /\ "testMode" \in DOMAIN pin
    /\ pout.merged # pin
    /\ pout.merged # Own(appConfigs, "default")
    /\ mergeWithDefault(pout.merged) = pout.merged

====
